---- MODULE Spec2Model ----
(***************************************************************************)
(* Model of the document-to-markdown conversion service                    *)
(* (src/src/document_converter.py) and its MIME resolver                   *)
(* (src/src/mime_utils.py).                                                *)
(*                                                                         *)
(* Strings are sequences of atoms: an atom is a piece of text that is      *)
(* never split ("/" and "." are atoms of their own), and concatenation of  *)
(* strings is concatenation of sequences.  Python dicts are functions      *)
(* whose DOMAIN is the set of keys present.  Optional values are << >>     *)
(* (None) or <<v>>.                                                        *)
(***************************************************************************)
EXTENDS Integers, Sequences, FiniteSets, TLC

\* ------------------------------------------------------------------ bounds
MaxMb == 2              \* largest configured max_file_size_mb explored
MaxFsChanges == 1       \* file-system changes by other actors during one call
MaxCalls == 2           \* calls a client makes with one input object
NumRequests == 2        \* asynchronous requests in flight together
MaxPages == 5            \* pages of a commit listing
MaxRequests == 9         \* requests one call of paginate_commits may send
MaxGets == 3            \* calls of each singleton getter

\* --------------------------------------------------------------- constants
MB == 1048576           \* 1024 * 1024
DirSize == 4096         \* st_size reported for a directory

\* ------------------------------------------------------- string operations
PyNone == << >>
Some(v) == <<v>>

\* str.split(sep): the pieces between occurrences of sep
RECURSIVE Split(_, _)
Split(s, sep) ==
  IF \A i \in 1..Len(s) : s[i] # sep
  THEN <<s>>
  ELSE LET i == CHOOSE k \in 1..Len(s) :
                  s[k] = sep /\ \A j \in 1..(k-1) : s[j] # sep
       IN <<SubSeq(s, 1, i-1)>> \o Split(SubSeq(s, i+1, Len(s)), sep)

\* the components that are neither empty nor ".", in order
RECURSIVE DropEmptyAndDot(_)
DropEmptyAndDot(parts) ==
  IF parts = << >> THEN << >>
  ELSE IF Head(parts) = << >> \/ Head(parts) = <<".">>
       THEN DropEmptyAndDot(Tail(parts))
       ELSE <<Head(parts)>> \o DropEmptyAndDot(Tail(parts))

\* pathlib.PurePosixPath parsing: components without "" and "."
PathParts(file_path) == DropEmptyAndDot(Split(file_path, "/"))

\* Path.name: the final component, '' when there is none
PathName_WholePath(file_path) == file_path

PathName(file_path) ==
  LET parts == PathParts(file_path)
  IN IF parts = << >> THEN << >> ELSE parts[Len(parts)]

\* Path.suffix: from the last "." of the name, unless it leads or ends it
PathSuffix(file_path) ==
  LET name == PathName(file_path)
      dots == {i \in 1..Len(name) : name[i] = "."}
  IN IF dots = {} THEN << >>
     ELSE LET i == CHOOSE k \in dots : \A j \in dots : j <= k
          IN IF 1 < i /\ i < Len(name) THEN SubSeq(name, i, Len(name))
             ELSE << >>

\* str.lower, on the atoms that occur in the explored inputs
Lower(s) ==
  LET LowerAtom(a) ==
        CASE a = "PDF" -> "pdf"
          [] a = "TRUE" -> "true"
          [] a = "TXT" -> "txt"
          [] a = "Docx" -> "docx"
          [] OTHER -> a
  IN [i \in DOMAIN s |-> LowerAtom(s[i])]

\* ------------------------------------------------------------ MIME resolver
Mime(base, sub) == <<base, "/", sub>>

SUPPORTED_MIME_TYPES ==
  { Mime("application", "pdf"),
    Mime("application", "vnd.openxmlformats-officedocument.wordprocessingml.document"),
    Mime("application", "msword"),
    Mime("application", "vnd.openxmlformats-officedocument.spreadsheetml.sheet"),
    Mime("application", "vnd.ms-excel"),
    Mime("application", "vnd.openxmlformats-officedocument.presentationml.presentation"),
    Mime("application", "vnd.ms-powerpoint"),
    Mime("text", "html"), Mime("text", "csv"), Mime("text", "plain"),
    Mime("text", "markdown"),
    Mime("application", "json"), Mime("application", "xml"), Mime("text", "xml"),
    Mime("image", "jpeg"), Mime("image", "png"), Mime("image", "bmp"),
    Mime("image", "tiff"),
    Mime("audio", "wav"), Mime("audio", "mpeg"),
    Mime("application", "zip"), Mime("application", "epub+zip") }

SUPPORTED_BASE_TYPES == { <<"text">>, <<"image">> }

\* MimeTypeDetector.is_supported
Detector_is_supported(mime_type) ==
  IF mime_type \in SUPPORTED_MIME_TYPES THEN TRUE
  ELSE LET base_type == Split(mime_type, "/")[1]
       IN base_type \in SUPPORTED_BASE_TYPES

\* mimetypes.types_map: the system table.  Whether the
\* table knows the open-XML office types depends on the host.
types_map(sys_has_office, ext) ==
  CASE ext = <<".", "txt">> -> Some(Mime("text", "plain"))
    [] ext = <<".", "pdf">> -> Some(Mime("application", "pdf"))
    [] ext = <<".", "doc">> /\ sys_has_office -> Some(Mime("application", "msword"))
    [] ext = <<".", "docx">> /\ sys_has_office ->
         Some(Mime("application", "vnd.openxmlformats-officedocument.wordprocessingml.document"))
    [] ext = <<".", "xls">> /\ sys_has_office ->
         Some(Mime("application", "vnd.ms-excel"))
    [] ext = <<".", "xlsx">> /\ sys_has_office ->
         Some(Mime("application", "vnd.openxmlformats-officedocument.spreadsheetml.sheet"))
    [] ext = <<".", "ppt">> /\ sys_has_office ->
         Some(Mime("application", "vnd.ms-powerpoint"))
    [] ext = <<".", "pptx">> /\ sys_has_office ->
         Some(Mime("application", "vnd.openxmlformats-officedocument.presentationml.presentation"))
    [] OTHER -> PyNone

\* mimetypes.guess_type: the extension as given, then lower-cased
GuessType(sys_has_office, ext) ==
  IF types_map(sys_has_office, ext) # PyNone
  THEN types_map(sys_has_office, ext)
  ELSE types_map(sys_has_office, Lower(ext))

custom_mappings(ext) ==
  CASE ext = <<".", "docx">> ->
         Some(Mime("application", "vnd.openxmlformats-officedocument.wordprocessingml.document"))
    [] ext = <<".", "xlsx">> ->
         Some(Mime("application", "vnd.openxmlformats-officedocument.spreadsheetml.sheet"))
    [] ext = <<".", "pptx">> ->
         Some(Mime("application", "vnd.openxmlformats-officedocument.presentationml.presentation"))
    [] OTHER -> PyNone

\* MimeTypeDetector.detect_from_extension
detect_from_extension_NoFallback(sys_has_office, file_extension) ==
  LET guessed == GuessType(sys_has_office, file_extension)
  IN IF guessed # PyNone /\ guessed[1] # << >> THEN guessed[1]
     ELSE Mime("application", "octet-stream")

detect_from_extension(sys_has_office, file_extension) ==
  LET guessed == GuessType(sys_has_office, file_extension)
  IN IF guessed # PyNone /\ guessed[1] # << >> THEN guessed[1]
     ELSE LET custom == custom_mappings(Lower(file_extension))
          IN IF custom # PyNone THEN custom[1]
             ELSE Mime("application", "octet-stream")

\* ------------------------------------------------------ number formatting
\* ------------------------------------------------------------ result dicts
\* d[k] = v on a dict
Set(d, k, v) == (k :> v) @@ d

Truthy(opt_string) == opt_string # PyNone /\ opt_string[1] # << >>

\* lines 185-188: the message of the size refusal
TooLargeMsg(file_size, max_file_size) ==
  LET \* f"{n / 1024 / 1024:.1f}": the quotient is exact in binary floating
      \* point, so the digit is the exact value rounded half-to-even to one
      \* decimal
      Fmt1(n) ==
        LET q == (n * 10) \div MB
            r == (n * 10) % MB
            tenths == IF 2 * r > MB THEN q + 1
                      ELSE IF 2 * r < MB THEN q
                      ELSE IF q % 2 = 0 THEN q ELSE q + 1
        IN <<ToString(tenths \div 10), ".", ToString(tenths % 10)>>
      \* f"{max_file_size / 1024 / 1024}": repr of the float quotient
      FloatRepr(n) ==
        LET q == (n * 10) \div MB
        IN IF (n * 10) % MB = 0
           THEN <<ToString(q \div 10), ".", ToString(q % 10)>>
           ELSE <<ToString(q \div 10), ".", ToString(q % 10), "...">>
  IN <<"File too large (">> \o Fmt1(file_size) \o <<"MB). ", "Maximum size: ">>
       \o FloatRepr(max_file_size) \o <<"MB">>

\* -------------------------------------------------------- DocumentConverter
\* DocumentConverter.is_available
is_available_AlwaysTrue(available) == TRUE

is_available(available) == available

\* DocumentConverter.is_supported
is_supported_NoDelegation(available, mime_type) == is_available(available)

is_supported(available, mime_type) ==
  IF ~is_available(available) THEN FALSE
  ELSE Detector_is_supported(mime_type)

\* sorted(SUPPORTED_MIME_TYPES), in Python's string order
SortedFormats ==
  << Mime("application", "epub+zip"), Mime("application", "json"),
     Mime("application", "msword"), Mime("application", "pdf"),
     Mime("application", "vnd.ms-excel"), Mime("application", "vnd.ms-powerpoint"),
     Mime("application", "vnd.openxmlformats-officedocument.presentationml.presentation"),
     Mime("application", "vnd.openxmlformats-officedocument.spreadsheetml.sheet"),
     Mime("application", "vnd.openxmlformats-officedocument.wordprocessingml.document"),
     Mime("application", "xml"), Mime("application", "zip"),
     Mime("audio", "mpeg"), Mime("audio", "wav"),
     Mime("image", "bmp"), Mime("image", "jpeg"), Mime("image", "png"),
     Mime("image", "tiff"),
     Mime("text", "csv"), Mime("text", "html"), Mime("text", "markdown"),
     Mime("text", "plain"), Mime("text", "xml") >>

\* DocumentConverter.get_supported_formats
get_supported_formats(available) ==
  IF ~is_available(available) THEN << >> ELSE SortedFormats

\* MimeTypeDetector.get_supported_extensions: the extensions the system
\* table lists for the supported types plus the three added by hand,
\* deduplicated and sorted
Detector_get_supported_extensions(sys_has_office) ==
  IF sys_has_office
  THEN << <<".", "doc">>, <<".", "docx">>, <<".", "pdf">>, <<".", "pptx">>,
          <<".", "txt">>, <<".", "xlsx">> >>
  ELSE << <<".", "docx">>, <<".", "pdf">>, <<".", "pptx">>, <<".", "txt">>,
          <<".", "xlsx">> >>

\* DocumentConverter.get_supported_extensions
get_supported_extensions(available, sys_has_office) ==
  IF ~is_available(available) THEN << >>
  ELSE Detector_get_supported_extensions(sys_has_office)

\* lines 184 and 270: the size test
ExceedsLimit_Inclusive(file_size, limit) == file_size >= limit

ExceedsLimit(file_size, limit) == file_size > limit

\* line 199: how often self._converter.convert is called for one request
RenderAttempts_Retry(r) == IF r.kind \in {"import_error", "error"} THEN 2 ELSE 1

RenderAttempts(r) == 1

\* The effects of a call that are observable from outside it
NoEffects(pos) ==
  [renderCalls |-> 0, measures |-> 0, mimeChecks |-> 0,
   pos |-> pos, posAtRender |-> -1]

\* io.BytesIO(b) for bytes, the stream itself otherwise
AsStream(file_stream) ==
  IF file_stream.kind = "bytes"
  THEN [kind |-> "stream", size |-> file_stream.size, pos |-> 0, closed |-> FALSE]
  ELSE file_stream

\* the except clauses of convert_to_markdown (lines 209-218)
HandleConversionError_NoImportClause(result, mime_type, exc) ==
  Set(Set(result, "error", <<"Conversion failed: ">> \o exc.msg),
      "success", FALSE)

HandleConversionError(result, mime_type, exc) ==
  IF exc.type \in {"ImportError", "ModuleNotFoundError"}
  THEN Set(Set(result, "error",
               <<"Missing dependency for ">> \o mime_type \o <<": ">> \o exc.msg),
           "success", FALSE)
  ELSE Set(Set(result, "error", <<"Conversion failed: ">> \o exc.msg),
           "success", FALSE)

\* lines 198-207: the renderer call and what follows it inside the try
RenderAndFill(result, mime_type, file_size, rend) ==
  CASE rend.kind = "import_error" ->
         HandleConversionError(result, mime_type,
                               [type |-> "ImportError", msg |-> rend.msg])
    [] rend.kind = "error" ->
         HandleConversionError(result, mime_type,
                               [type |-> "Exception", msg |-> rend.msg])
    [] rend.kind = "no_attr" ->
         \* conversion_result.text_content raises AttributeError
         HandleConversionError(result, mime_type,
                               [type |-> "AttributeError",
                                msg |-> <<"object has no attribute 'text_content'">>])
    [] rend.kind = "none_text" ->
         \* markdown, success and size_bytes are stored, then len(None) raises
         HandleConversionError(
           Set(Set(Set(result, "markdown", PyNone), "success", TRUE),
               "size_bytes", file_size),
           mime_type,
           [type |-> "TypeError",
            msg |-> <<"object of type 'NoneType' has no len()">>])
    [] rend.kind = "text" ->
         Set(Set(Set(result, "markdown", Some(rend.text)), "success", TRUE),
             "size_bytes", file_size)

\* line 199: where the renderer call leaves the stream.  The converter does
\* not touch the stream after the call: a renderer that returns and consumes
\* its input leaves it at the end, any other leaves it where it got it
StreamPosAfterRender_AlwaysEnd(rend, stream, restored) == stream.size

StreamPosAfterRender(rend, stream, restored) ==
  IF rend.consumes /\ rend.kind \in {"text", "none_text", "no_attr"}
  THEN stream.size ELSE restored

\* lines 180-181: seek(0, SEEK_END); tell() gives the stream's total length
SeekEndTell_FromPosition(stream) == stream.size - stream.pos

SeekEndTell(stream) == stream.size

\* DocumentConverter.convert_to_markdown: the returned dict and its effects
convert_to_markdown(available, max_file_size, file_stream, mime_type, filename, rend) ==
  LET result == ("mime_type" :> mime_type)
                @@ ("filename" :> (IF Truthy(filename) THEN filename[1]
                                   ELSE <<"unknown">>))
      pos0 == IF file_stream.kind = "bytes" THEN 0 ELSE file_stream.pos
      stream == AsStream(file_stream)
  IN IF ~is_available(available)
     THEN [result |-> Set(Set(result, "error",
                              <<"Document conversion not available. ",
                                "Install with: pip install markitdown">>),
                          "success", FALSE),
           eff |-> NoEffects(pos0)]
     ELSE IF ~is_supported(available, mime_type)
     THEN [result |-> Set(Set(result, "error",
                              <<"Unsupported file type: ">> \o mime_type),
                          "success", FALSE),
           eff |-> [NoEffects(pos0) EXCEPT !.mimeChecks = 1]]
     ELSE IF stream.closed
     THEN \* file_stream.tell() raises ValueError
          [result |-> HandleConversionError(result, mime_type,
                         [type |-> "ValueError",
                          msg |-> <<"I/O operation on closed file">>]),
           eff |-> [NoEffects(pos0) EXCEPT !.mimeChecks = 1, !.measures = 1]]
     ELSE LET current_pos == stream.pos
              file_size == SeekEndTell(stream)
              restored == current_pos        \* seek(current_pos)
          IN IF ExceedsLimit(file_size, max_file_size)
             THEN [result |-> Set(Set(result, "error",
                                      TooLargeMsg(file_size, max_file_size)),
                                  "success", FALSE),
                   eff |-> [NoEffects(restored) EXCEPT !.mimeChecks = 1,
                                                       !.measures = 4]]
             ELSE [result |-> RenderAndFill(result, mime_type, file_size, rend),
                   eff |-> [renderCalls |-> RenderAttempts(rend), measures |-> 4, mimeChecks |-> 1,
                            pos |-> StreamPosAfterRender(rend, stream, restored),
                            posAtRender |-> restored]]

\* str(Path(file_path)): the components joined by "/", "." when there are none
RECURSIVE JoinSlash(_)
JoinSlash(parts) ==
  IF parts = << >> THEN << >>
  ELSE IF Len(parts) = 1 THEN parts[1]
  ELSE parts[1] \o <<"/">> \o JoinSlash(Tail(parts))

PathStr(file_path) ==
  LET parts == PathParts(file_path)
      rooted == file_path # << >> /\ file_path[1] = "/"
  IN IF parts = << >> THEN (IF rooted THEN <<"/">> ELSE <<".">>)
     ELSE (IF rooted THEN <<"/">> ELSE << >>) \o JoinSlash(parts)

\* --------------------------------------------------------- explored inputs
Sizes ==
  {0, 10, (5 * MB) \div 4}
    \cup {mb * MB + d : mb \in 1..MaxMb, d \in {-1, 0, 1}}

Bytes(n) == [kind |-> "bytes", size |-> n, pos |-> 0, closed |-> FALSE]

Streams ==
  {Bytes(n) : n \in Sizes}
    \cup {[kind |-> "stream", size |-> n, pos |-> p, closed |-> FALSE] :
            n \in Sizes, p \in {0, 10}}
    \cup {[kind |-> "stream", size |-> 10, pos |-> 0, closed |-> TRUE]}

MimeInputs ==
  { Mime("application", "pdf"), Mime("text", "plain"), Mime("text", "x-rst"),
    Mime("application", "x-totally-unknown"), Mime("video", "mp4"),
    Mime("application", "octet-stream") }

Filenames == { PyNone, Some(<< >>), Some(<<"test", ".", "pdf">>) }

Renderer(kind, text, msg) ==
  [kind |-> kind, text |-> text, msg |-> msg, consumes |-> TRUE]

Renderers ==
  { Renderer("text", <<"# Hello, World!">>, << >>),
    Renderer("none_text", << >>, << >>),
    Renderer("no_attr", << >>, << >>),
    Renderer("import_error", << >>, <<"No module named 'pdfminer'">>),
    Renderer("error", << >>, <<"corrupt document">>) }

Paths ==
  { <<"hello", ".", "txt">>,
    <<"data", "/", "report", ".", "PDF">>,
    <<"/", "tmp", "/", "notes", ".", "Docx">>,
    <<".", "/", "archive", ".", "zzz">>,
    <<"docs", "/">> }

\* what a lookup of the path finds: nothing, a regular file, a directory,
\* EACCES (a parent directory is not searchable) or another OS error (EIO)
Entry(kind, size, readable) == [kind |-> kind, size |-> size, readable |-> readable]

Entries ==
  { Entry("absent", 0, FALSE), Entry("dir", DirSize, TRUE),
    Entry("noaccess", 0, FALSE), Entry("ioerror", 0, FALSE) }
    \cup {Entry("file", n, TRUE) : n \in Sizes}
    \cup {Entry("file", 10, FALSE)}

\* -------------------------------------------------------------------- state
VARIABLES
  available,          \* MARKITDOWN_AVAILABLE
  max_file_size_mb,   \* ConverterConfig.max_file_size_mb
  sys_has_office,     \* the host's mimetypes table lists the office types
  stat_ignores_oserror, \* Path.exists/is_file return False on any OSError
                        \* (Python 3.14) instead of re-raising it
  pc,                 \* position of the call in progress
  call,               \* the operation called and its arguments
  entry,              \* what the file system holds at call.file_path
  handle,             \* the stream opened by convert_file
  mime,               \* convert_file: the detected MIME type
  rend,               \* how the renderer behaves when this call invokes it
  result,             \* the dict returned, << >> while there is none
  raised,             \* the exception that left the call, PyNone if none
  eff,                \* what the call did: renderer calls, measuring, opens
  fsChanges           \* changes of entry by other actors during the call

\* a client that calls convert_to_markdown twice with the same input object
VARIABLES
  tw_input,           \* the bytes value or the stream object passed both times
  tw_req,             \* mime_type, filename and the renderer installed
  tw_results          \* the dicts returned so far, in call order

twiceVars == <<tw_input, tw_req, tw_results>>

TwiceIdle ==
  /\ tw_input = Bytes(0)
  /\ tw_req = [mime_type |-> << >>, filename |-> PyNone, renderer |-> "none"]
  /\ tw_results = << >>

\* requests in flight on the asynchronous variants, one slot per request
VARIABLES
  as_req,             \* the variant called and its arguments
  as_state,           \* new, queued, running, finished, resolved
  as_closure,         \* the arguments captured by the wrapper's lambda
  as_invoked,         \* the arguments of each call of the synchronous method
  as_future,          \* the outcome set on the executor's future
  as_returned         \* the outcome the awaiting caller got

asyncVars == <<as_req, as_state, as_closure, as_invoked, as_future, as_returned>>

AsyncIdle ==
  /\ as_req = << >>
  /\ as_state = << >>
  /\ as_closure = << >>
  /\ as_invoked = << >>
  /\ as_future = << >>
  /\ as_returned = << >>

\* one call of the read_file tool of the MCP server
VARIABLES
  cwd,                \* os.getcwd() of the server process
  rf_pc,              \* idle, guard_exists, guard_is_file, converting, done
  rf_arg,             \* arguments["file_path"]
  rf_norm,            \* normalized_path
  rf_result,          \* the dict the tool returns
  rf_eff              \* file-system lookups of the guard and what they met,
                      \* converter calls and their argument

toolVars == <<cwd, rf_pc, rf_arg, rf_norm, rf_result, rf_eff>>

\* the tool-dispatch layer of the MCP server
VARIABLES
  jira_client,        \* self.jira_client is set
  env_credentials,    \* those of JIRA_URL, JIRA_USER, JIRA_API_TOKEN that are set
  dp_pc,              \* idle, done
  dp,                 \* the frame and the outcome of the current call
  dp_failedBefore     \* a handler has failed in an earlier call

dispatchVars == <<jira_client, env_credentials, dp_pc, dp, dp_failedBefore>>

\* the modules as loaded in the process: configuration defaults, singletons
VARIABLES
  md_env,             \* os.environ, the three variables of the converter
  md_loaded,          \* document_converter has been imported
  md_defaults,        \* the field defaults of the ConverterConfig dataclass
  md_config,          \* the last ConverterConfig() and os.environ at that time
  md_converter,       \* _converter_instance, constructions, values returned
  md_detector         \* _detector_instance, constructions, values returned

moduleVars == <<md_env, md_loaded, md_defaults, md_config, md_converter,
                md_detector>>

\* one extension and one MIME string handed to the MimeTypeDetector
VARIABLES
  mt_ext,             \* file_extension
  mt_mime,            \* mime_type
  mt_detected,        \* what detect_from_extension returned
  mt_supported        \* what is_supported returned

mimeVars == <<mt_ext, mt_mime, mt_detected, mt_supported>>

\* two JSON files handed to the JsonValidator
VARIABLES
  jv_baseline,        \* the file at baseline_file
  jv_comparison,      \* the file at comparison_file
  jv_result           \* what validate_files gave its caller

jsonVars == <<jv_baseline, jv_comparison, jv_result>>

\* one call of paginate_commits against a repository's commit listings
VARIABLES
  pg_filtered,        \* pages of the listing filtered by branch and since
  pg_plain,           \* pages of the listing of the bare commits URL
  pg_pc,              \* idle, loop, follow, returned
  pg_params,          \* params holds the filter (TRUE) or is None (FALSE)
  pg_next,            \* next_url
  pg_commits,         \* commits
  pg_requests         \* the requests sent, with the page each was answered with

pageVars ==
  <<pg_filtered, pg_plain, pg_pc, pg_params, pg_next, pg_commits, pg_requests>>

\* the library state outside the converter and the server
libVars == <<moduleVars, mimeVars, jsonVars, pageVars>>

\* the state of the other components
ext == <<twiceVars, asyncVars, toolVars, dispatchVars, libVars>>

convVars == <<pc, call, entry, handle, mime, rend, result, raised, eff,
              fsChanges>>

vars == <<available, max_file_size_mb, sys_has_office, stat_ignores_oserror,
          pc, call, entry, handle, mime, rend, result, raised, eff,
          fsChanges, ext>>

config == <<available, max_file_size_mb, sys_has_office, stat_ignores_oserror>>

\* DocumentConverter.__init__: self.max_file_size
max_file_size == max_file_size_mb * 1024 * 1024

NoEntry == Entry("absent", 0, FALSE)
NoRend == [kind |-> "unused", text |-> << >>, msg |-> << >>, consumes |-> TRUE]
NoHandle == [kind |-> "stream", size |-> 0, pos |-> 0, closed |-> TRUE]
NoCallEffects ==
  [renderCalls |-> 0, measures |-> 0, mimeChecks |-> 0, pos |-> 0,
   posAtRender |-> -1, opens |-> 0, ctmCalls |-> 0, stats |-> 0]

NoToolEffects ==
  [lookups |-> 0, converterCalls |-> 0, converterArg |-> << >>,
   entryAtGuard |-> NoEntry]

\* no call of the tool is under way
ToolIdle ==
  /\ rf_pc = "idle"
  /\ rf_arg = << >>
  /\ rf_norm = << >>
  /\ rf_result = << >>
  /\ rf_eff = NoToolEffects

ToolAtRest ==
  /\ cwd = <<"/", "srv", "/", "app">>
  /\ ToolIdle

\* JSON values: strings, booleans, objects as sequences of <<key, value>>,
\* and a bytes value, which json.dumps cannot serialize
JStr(s) == [t |-> "str", s |-> s, o |-> << >>]
JBool(b) == [t |-> "bool", s |-> <<IF b THEN "true" ELSE "false">>, o |-> << >>]
JObj(o) == [t |-> "obj", s |-> << >>, o |-> o]

NoDispatchFrame ==
  [name |-> << >>, arguments |-> JObj(<< >>), handlerRuns |-> 0,
   handlerRaised |-> FALSE, exc |-> [type |-> "", arg |-> << >>],
   logged |-> 0, raised |-> PyNone, payloads |-> << >>,
   clientBefore |-> FALSE, initCalls |-> 0]

\* a freshly constructed server (lines 25-30) in an environment without
\* credentials
DispatchAtRest ==
  /\ jira_client = FALSE
  /\ env_credentials = {}
  /\ dp_pc = "idle"
  /\ dp = NoDispatchFrame
  /\ dp_failedBefore = FALSE

NoEnvironment ==
  [n \in {"MAX_DOCUMENT_SIZE_MB", "DOCUMENT_CONVERSION_TIMEOUT",
          "DOCUMENT_CONVERTER_DEBUG"} |-> PyNone]

NoInstances == [instance |-> 0, constructed |-> 0, returned |-> << >>]

\* the modules imported in an empty environment, no singleton made yet
ModuleAtRest ==
  /\ md_env = NoEnvironment
  /\ md_loaded = TRUE
  /\ md_defaults = [max_file_size_mb |-> 50, timeout_seconds |-> 30,
                    enable_detailed_logging |-> FALSE]
  /\ md_config = PyNone
  /\ md_converter = NoInstances
  /\ md_detector = NoInstances

MimeAtRest ==
  /\ mt_ext = << >>
  /\ mt_mime = << >>
  /\ mt_detected = PyNone
  /\ mt_supported = PyNone

JsonAtRest ==
  /\ jv_baseline = << >>
  /\ jv_comparison = << >>
  /\ jv_result = PyNone

PagesAtRest ==
  /\ pg_filtered = 1
  /\ pg_plain = 1
  /\ pg_pc = "idle"
  /\ pg_params = FALSE
  /\ pg_next = [listing |-> "", number |-> 0]
  /\ pg_commits = << >>
  /\ pg_requests = << >>

LibAtRest == ModuleAtRest /\ MimeAtRest /\ JsonAtRest /\ PagesAtRest

ExtIdle == TwiceIdle /\ AsyncIdle /\ ToolAtRest /\ DispatchAtRest /\ LibAtRest

Init ==
  /\ available \in BOOLEAN
  /\ max_file_size_mb \in 1..MaxMb
  /\ sys_has_office \in BOOLEAN
  /\ stat_ignores_oserror \in BOOLEAN
  /\ pc = "idle"
  /\ call = [op |-> "none"]
  /\ entry = NoEntry
  /\ handle = NoHandle
  /\ mime = << >>
  /\ rend = NoRend
  /\ result = << >>
  /\ raised = PyNone
  /\ eff = NoCallEffects
  /\ fsChanges = 0
  /\ ExtIdle

\* the effects of one convert_to_markdown call added to those of the caller
WithConversion(e, ceff) ==
  [e EXCEPT !.renderCalls = @ + ceff.renderCalls,
            !.measures = @ + ceff.measures,
            !.mimeChecks = @ + ceff.mimeChecks,
            !.pos = ceff.pos,
            !.posAtRender = ceff.posAtRender,
            !.ctmCalls = @ + 1]

\* one call of DocumentConverter.convert_to_markdown by a client
Call_convert_to_markdown ==
  \E file_stream \in Streams, mime_type \in MimeInputs,
     filename \in Filenames, r \in Renderers :
    /\ pc = "idle"
    /\ call' = [op |-> "convert_to_markdown", file_stream |-> file_stream,
                mime_type |-> mime_type, filename |-> filename]
    /\ rend' = r
    /\ LET out == convert_to_markdown(available, max_file_size, file_stream,
                                      mime_type, filename, r)
       IN /\ result' = out.result
          /\ eff' = WithConversion(NoCallEffects, out.eff)
    /\ raised' = PyNone
    /\ pc' = "done"
    /\ entry' = NoEntry
    /\ handle' = NoHandle
    /\ mime' = << >>
    /\ fsChanges' = 0
    /\ UNCHANGED <<config, ext>>

\* ----------------------------------------------------------- convert_file
\* the dict literal of convert_file's failure returns
FileFailure(error, file_path) ==
  ("error" :> error) @@ ("success" :> FALSE) @@ ("filename" :> PathName(file_path))

\* str(e) of the OSError a system call on `shown` raises
OSErrorStr(kind, shown) ==
  (CASE kind = "absent" -> <<"[Errno 2] No such file or directory: '">>
     [] kind = "noaccess" -> <<"[Errno 13] Permission denied: '">>
     [] kind = "unreadable" -> <<"[Errno 13] Permission denied: '">>
     [] kind = "dir" -> <<"[Errno 21] Is a directory: '">>
     [] OTHER -> <<"[Errno 5] Input/output error: '">>)
  \o shown \o <<"'">>

OSErrorType(kind) ==
  CASE kind = "absent" -> "FileNotFoundError"
    [] kind = "noaccess" -> "PermissionError"
    [] kind = "unreadable" -> "PermissionError"
    [] kind = "dir" -> "IsADirectoryError"
    [] OTHER -> "OSError"

\* the except clauses of convert_file (lines 284-307)
HandleFileError_Generic(exc_type, exc_str, file_path) ==
  FileFailure(<<"Failed to read file: ">> \o exc_str, file_path)

HandleFileError(exc_type, exc_str, file_path) ==
  CASE exc_type = "PermissionError" ->
         FileFailure(<<"Permission denied: ">> \o exc_str, file_path)
    [] exc_type = "FileNotFoundError" ->
         FileFailure(<<"File not found: ">> \o exc_str, file_path)
    [] OTHER ->
         FileFailure(<<"Failed to read file: ">> \o exc_str, file_path)

Return(res) ==
  /\ result' = res
  /\ raised' = PyNone
  /\ pc' = "done"

Raise(exc_type) ==
  /\ result' = << >>
  /\ raised' = Some(exc_type)
  /\ pc' = "done"

\* Path.exists(): True, False, or the OSError of the lookup when pathlib
\* re-raises it
PathExists(e, ignores_oserror) ==
  IF e.kind \in {"file", "dir"} THEN "True"
  ELSE IF e.kind = "absent" \/ ignores_oserror THEN "False"
  ELSE "raise"

\* Path.is_file()
PathIsFile_NoCheck(e, ignores_oserror) ==
  IF e.kind \in {"file", "dir"} THEN "True"
  ELSE IF e.kind = "absent" \/ ignores_oserror THEN "False"
  ELSE "raise"

PathIsFile(e, ignores_oserror) ==
  IF e.kind = "file" THEN "True"
  ELSE IF e.kind \in {"absent", "dir"} \/ ignores_oserror THEN "False"
  ELSE "raise"

\* a client calls DocumentConverter.convert_file: path = Path(file_path)
Call_convert_file ==
  \E file_path \in Paths, e \in Entries :
    /\ pc = "idle"
    /\ call' = [op |-> "convert_file", file_path |-> file_path]
    /\ rend' = NoRend
    /\ entry' = e
    /\ pc' = "cf_exists"
    /\ result' = << >>
    /\ raised' = PyNone
    /\ eff' = NoCallEffects
    /\ handle' = NoHandle
    /\ mime' = << >>
    /\ fsChanges' = 0
    /\ UNCHANGED <<config, ext>>

\* line 248: if not path.exists()
CF_exists ==
  /\ pc = "cf_exists"
  /\ IF PathExists(entry, stat_ignores_oserror) = "True"
     THEN /\ pc' = "cf_is_file"
          /\ UNCHANGED <<result, raised>>
     ELSE IF PathExists(entry, stat_ignores_oserror) = "False"
     THEN Return(FileFailure(<<"File does not exist: ">> \o call.file_path,
                             call.file_path))
     ELSE Raise(OSErrorType(entry.kind))
  /\ eff' = [eff EXCEPT !.stats = @ + 1]
  /\ UNCHANGED <<config, ext, call, entry, handle, mime, rend, fsChanges>>

\* lines 255-263: if not path.is_file(), then the MIME type of the suffix
CF_is_file ==
  /\ pc = "cf_is_file"
  /\ IF PathIsFile(entry, stat_ignores_oserror) = "True"
     THEN /\ pc' = "cf_stat"
          /\ mime' = detect_from_extension(sys_has_office,
                                           Lower(PathSuffix(call.file_path)))
          /\ UNCHANGED <<result, raised>>
     ELSE IF PathIsFile(entry, stat_ignores_oserror) = "False"
     THEN /\ Return(FileFailure(<<"Path is not a file: ">> \o call.file_path,
                                call.file_path))
          /\ mime' = mime
     ELSE /\ Raise(OSErrorType(entry.kind))
          /\ mime' = mime
  /\ eff' = [eff EXCEPT !.stats = @ + 1]
  /\ UNCHANGED <<config, ext, call, entry, handle, rend, fsChanges>>

\* lines 269-280: path.stat().st_size against the limit
CF_stat ==
  /\ pc = "cf_stat"
  /\ IF entry.kind \in {"absent", "noaccess", "ioerror"}
     THEN Return(HandleFileError(OSErrorType(entry.kind),
                                 OSErrorStr(entry.kind, PathStr(call.file_path)),
                                 call.file_path))
     ELSE LET file_size == entry.size
          IN IF ExceedsLimit(file_size, max_file_size)
             THEN Return(FileFailure(TooLargeMsg(file_size, max_file_size),
                                     call.file_path))
             ELSE /\ pc' = "cf_open"
                  /\ UNCHANGED <<result, raised>>
  /\ eff' = [eff EXCEPT !.stats = @ + 1]
  /\ UNCHANGED <<config, ext, call, entry, handle, mime, rend, fsChanges>>

\* line 282: open(file_path, 'rb')
CF_open ==
  /\ pc = "cf_open"
  /\ IF entry.kind = "file" /\ entry.readable
     THEN /\ handle' = [kind |-> "stream", size |-> entry.size, pos |-> 0,
                        closed |-> FALSE]
          /\ eff' = [eff EXCEPT !.opens = @ + 1]
          /\ pc' = "cf_convert"
          /\ UNCHANGED <<result, raised>>
     ELSE LET why == IF entry.kind = "file" THEN "unreadable" ELSE entry.kind
          IN /\ Return(HandleFileError(OSErrorType(why),
                                       OSErrorStr(why, call.file_path),
                                       call.file_path))
             /\ UNCHANGED <<handle, eff>>
  /\ UNCHANGED <<config, ext, call, entry, mime, rend, fsChanges>>

\* line 283: return self.convert_to_markdown(f, mime_type, path.name)
CF_convert ==
  /\ pc = "cf_convert"
  /\ \E r \in Renderers :
       LET out == convert_to_markdown(available, max_file_size, handle, mime,
                                      Some(PathName(call.file_path)), r)
       IN /\ rend' = r
          /\ Return(out.result)
          /\ eff' = WithConversion(eff, out.eff)
  /\ handle' = [handle EXCEPT !.closed = TRUE]
  /\ UNCHANGED <<config, ext, call, entry, mime, fsChanges>>

\* another actor creates, removes, replaces, resizes or re-protects the
\* entry while convert_file is between two of its system calls
FsChange ==
  /\ pc \in {"cf_exists", "cf_is_file", "cf_stat", "cf_open"}
  /\ fsChanges < MaxFsChanges
  /\ \E e \in Entries : e # entry /\ entry' = e
  /\ fsChanges' = fsChanges + 1
  /\ UNCHANGED <<config, ext, pc, call, handle, mime, rend, result, raised, eff>>

\* the caller has taken the result (or the exception); the call's frame and
\* everything local to it are gone
CallReturns ==
  /\ pc = "done"
  /\ pc' = "idle"
  /\ call' = [op |-> "none"]
  /\ entry' = NoEntry
  /\ handle' = NoHandle
  /\ mime' = << >>
  /\ rend' = NoRend
  /\ result' = << >>
  /\ raised' = PyNone
  /\ eff' = NoCallEffects
  /\ fsChanges' = 0
  /\ UNCHANGED <<config, ext>>

Next ==
  \/ Call_convert_to_markdown
  \/ Call_convert_file
  \/ CF_exists
  \/ CF_is_file
  \/ CF_stat
  \/ CF_open
  \/ CF_convert
  \/ FsChange
  \/ CallReturns

Spec == Init /\ [][Next]_vars

\* ---------------------------------------------------------------------------
\* A client calling convert_to_markdown repeatedly with one input object
\* ---------------------------------------------------------------------------

\* the converter component at rest
ConvIdle ==
  /\ pc = "idle"
  /\ call = [op |-> "none"]
  /\ entry = NoEntry
  /\ handle = NoHandle
  /\ mime = << >>
  /\ rend = NoRend
  /\ result = << >>
  /\ raised = PyNone
  /\ eff = NoCallEffects
  /\ fsChanges = 0

\* deterministic renderers behind self._converter.convert (line 199): the
\* text is a function of what is read from the stream's current position
DetRenderers == {"echo_consume", "echo_restore", "constant", "rejects_empty"}

DetRender(behaviour, stream) ==
  LET \* what is read of the document from the stream's position
      read == IF stream.pos >= stream.size THEN << >>
              ELSE <<"bytes[", ToString(stream.pos), ":",
                     ToString(stream.size), "]">>
  IN  CASE behaviour = "echo_consume" ->
             [kind |-> "text", text |-> read, msg |-> << >>, consumes |-> TRUE]
        [] behaviour = "echo_restore" ->
             [kind |-> "text", text |-> read, msg |-> << >>, consumes |-> FALSE]
        [] behaviour = "constant" ->
             [kind |-> "text", text |-> <<"# Hello, World!">>, msg |-> << >>,
              consumes |-> FALSE]
        [] OTHER ->
             IF read = << >>
             THEN [kind |-> "error", text |-> << >>,
                   msg |-> <<"empty document">>, consumes |-> TRUE]
             ELSE [kind |-> "text", text |-> read, msg |-> << >>,
                   consumes |-> TRUE]

InitTwice ==
  /\ available \in BOOLEAN
  /\ max_file_size_mb \in 1..MaxMb
  /\ sys_has_office = TRUE
  /\ stat_ignores_oserror = FALSE
  /\ ConvIdle
  /\ tw_input \in Streams
  /\ tw_req \in [mime_type : {Mime("application", "pdf"),
                              Mime("application", "x-totally-unknown")},
                 filename : {Some(<<"test", ".", "pdf">>)},
                 renderer : DetRenderers]
  /\ tw_results = << >>
  /\ AsyncIdle
  /\ ToolAtRest
  /\ DispatchAtRest
  /\ LibAtRest

\* one more call of converter.convert_to_markdown(tw_input, mime_type,
\* filename): a bytes value is wrapped afresh (line 176), a stream object
\* keeps the read position the call leaves it at
TwiceCall ==
  /\ Len(tw_results) < MaxCalls
  /\ LET out == convert_to_markdown(available, max_file_size, tw_input,
                                    tw_req.mime_type, tw_req.filename,
                                    DetRender(tw_req.renderer, AsStream(tw_input)))
     IN  /\ tw_results' = Append(tw_results,
                                 [result |-> out.result, startPos |-> tw_input.pos])
         /\ tw_input' = IF tw_input.kind = "stream" /\ ~tw_input.closed
                        THEN [tw_input EXCEPT !.pos = out.eff.pos]
                        ELSE tw_input
  /\ UNCHANGED <<config, convVars, tw_req, asyncVars, toolVars, dispatchVars, libVars>>

NextTwice == TwiceCall

SpecTwice == InitTwice /\ [][NextTwice]_vars

\* ---------------------------------------------------------------------------
\* The asynchronous variants: several requests in flight on the executor
\* ---------------------------------------------------------------------------

\* DocumentConverter.convert_file (lines 235-307) on a file-system entry that
\* stays as it is for the duration of the call: what the call returns or raises
convert_file(avail, limit, has_office, ignores_oserror, file_path, e, behaviour) ==
  LET returns(res) == [raised |-> PyNone, result |-> res]
      raises(exc_type) == [raised |-> Some(exc_type), result |-> << >>]
      f == [kind |-> "stream", size |-> e.size, pos |-> 0, closed |-> FALSE]
  IN IF PathExists(e, ignores_oserror) = "raise"
     THEN raises(OSErrorType(e.kind))
     ELSE IF PathExists(e, ignores_oserror) = "False"
     THEN returns(FileFailure(<<"File does not exist: ">> \o file_path, file_path))
     ELSE IF PathIsFile(e, ignores_oserror) = "raise"
     THEN raises(OSErrorType(e.kind))
     ELSE IF PathIsFile(e, ignores_oserror) = "False"
     THEN returns(FileFailure(<<"Path is not a file: ">> \o file_path, file_path))
     ELSE IF ExceedsLimit(e.size, limit)
     THEN returns(FileFailure(TooLargeMsg(e.size, limit), file_path))
     ELSE IF ~e.readable
     THEN returns(HandleFileError("PermissionError",
                                  OSErrorStr("unreadable", file_path), file_path))
     ELSE returns(convert_to_markdown(avail, limit, f,
                     detect_from_extension(has_office, Lower(PathSuffix(file_path))),
                     Some(PathName(file_path)),
                     DetRender(behaviour, f)).result)

\* the file system the requests in flight read
AsyncFs ==
  (<<"hello", ".", "txt">> :> Entry("file", 10, TRUE))
  @@ (<<"data", "/", "report", ".", "PDF">> :> Entry("file", MaxMb * MB + 1, TRUE))
  @@ (<<"docs", "/">> :> Entry("dir", DirSize, TRUE))
  @@ (<<".", "/", "archive", ".", "zzz">> :> Entry("absent", 0, FALSE))

\* the positional arguments of one request to an asynchronous variant
AsyncRequests ==
  {[op |-> "convert_file", args |-> <<p>>] : p \in DOMAIN AsyncFs}
    \cup {[op |-> "convert_to_markdown", args |-> <<Bytes(n), m, Some(<<"test", ".", "pdf">>)>>] :
            n \in {10, MB}, m \in {Mime("application", "pdf")}}
    \cup {[op |-> "convert_to_markdown",
           args |-> <<Bytes(10), Mime("video", "mp4"), PyNone>>]}

\* the synchronous counterpart applied to the arguments
SyncCall(op, args) ==
  IF op = "convert_file"
  THEN convert_file(available, max_file_size, sys_has_office,
                    stat_ignores_oserror, args[1], AsyncFs[args[1]],
                    "echo_consume")
  ELSE [raised |-> PyNone,
        result |-> convert_to_markdown(available, max_file_size, args[1],
                                       args[2], args[3],
                                       DetRender("echo_consume", AsStream(args[1]))).result]

Slots == 1..NumRequests

InitAsync ==
  /\ available \in BOOLEAN
  /\ max_file_size_mb = MaxMb
  /\ sys_has_office = TRUE
  /\ stat_ignores_oserror = FALSE
  /\ ConvIdle
  /\ TwiceIdle
  /\ as_req \in [Slots -> AsyncRequests]
  /\ as_state = [i \in Slots |-> "new"]
  /\ as_closure = [i \in Slots |-> PyNone]
  /\ as_invoked = [i \in Slots |-> << >>]
  /\ as_future = [i \in Slots |-> PyNone]
  /\ as_returned = [i \in Slots |-> PyNone]
  /\ ToolAtRest
  /\ DispatchAtRest
  /\ LibAtRest

\* line 54: the arguments the lambda of the i-th wrapper call applies func
\* to: *args of its own enclosing call
CapturedArgs_SharedCell(closure, i) ==
  closure[CHOOSE j \in DOMAIN closure :
            closure[j] # PyNone /\ \A k \in DOMAIN closure :
                                      closure[k] # PyNone => k <= j][1]

CapturedArgs(closure, i) == closure[i][1]

\* lines 50-55: the wrapper is called with the request's arguments and hands
\* a lambda closed over them to the default executor
AsyncCall(i) ==
  /\ as_state[i] = "new"
  /\ as_closure' = [as_closure EXCEPT ![i] = Some(as_req[i].args)]
  /\ as_state' = [as_state EXCEPT ![i] = "queued"]
  /\ UNCHANGED <<as_req, as_invoked, as_future, as_returned>>
  /\ UNCHANGED <<config, convVars, twiceVars, toolVars, dispatchVars, libVars>>

\* a worker thread takes the lambda and enters func(*args, **kwargs)
WorkerStart(i) ==
  /\ as_state[i] = "queued"
  /\ as_invoked' = [as_invoked EXCEPT
                      ![i] = Append(@, CapturedArgs(as_closure, i))]
  /\ as_state' = [as_state EXCEPT ![i] = "running"]
  /\ UNCHANGED <<as_req, as_closure, as_future, as_returned>>
  /\ UNCHANGED <<config, convVars, twiceVars, toolVars, dispatchVars, libVars>>

\* the synchronous call on the worker completes and its outcome is set on
\* the future
WorkerFinish(i) ==
  /\ as_state[i] = "running"
  /\ as_future' = [as_future EXCEPT
                     ![i] = Some(SyncCall(as_req[i].op,
                                          as_invoked[i][Len(as_invoked[i])]))]
  /\ as_state' = [as_state EXCEPT ![i] = "finished"]
  /\ UNCHANGED <<as_req, as_closure, as_invoked, as_returned>>
  /\ UNCHANGED <<config, convVars, twiceVars, toolVars, dispatchVars, libVars>>

\* line 52: the await resumes with the future's outcome
AwaitResumes(i) ==
  /\ as_state[i] = "finished"
  /\ as_returned' = [as_returned EXCEPT ![i] = as_future[i]]
  /\ as_state' = [as_state EXCEPT ![i] = "resolved"]
  /\ UNCHANGED <<as_req, as_closure, as_invoked, as_future>>
  /\ UNCHANGED <<config, convVars, twiceVars, toolVars, dispatchVars, libVars>>

NextAsync ==
  \/ \E i \in Slots : AsyncCall(i)
  \/ \E i \in Slots : WorkerStart(i)
  \/ \E i \in Slots : WorkerFinish(i)
  \/ \E i \in Slots : AwaitResumes(i)

SpecAsync == InitAsync /\ [][NextAsync]_vars

\* ---------------------------------------------------------------------------
\* JiraMcpServer._tool_read_file (mcp_server.py lines 315-389)
\* ---------------------------------------------------------------------------

\* posixpath.normpath, the loop over the components: "" and "." are skipped,
\* ".." removes the component before it unless there is none to remove (it is
\* then kept on a relative path and dropped on a rooted one) or that
\* component is ".." itself
RECURSIVE NormComps(_, _, _)
NormComps(comps, new_comps, initial_slashes) ==
  IF comps = << >> THEN new_comps
  ELSE LET comp == Head(comps)
           n == Len(new_comps)
       IN IF comp = << >> \/ comp = <<".">>
          THEN NormComps(Tail(comps), new_comps, initial_slashes)
          ELSE IF \/ comp # <<".", ".">>
                  \/ (initial_slashes = 0 /\ n = 0)
                  \/ (n > 0 /\ new_comps[n] = <<".", ".">>)
          THEN NormComps(Tail(comps), Append(new_comps, comp), initial_slashes)
          ELSE IF n > 0
          THEN NormComps(Tail(comps), SubSeq(new_comps, 1, n - 1), initial_slashes)
          ELSE NormComps(Tail(comps), new_comps, initial_slashes)

\* os.path.normpath (line 322)
normpath(path) ==
  IF path = << >> THEN <<".">>
  ELSE LET initial_slashes ==
             IF path[1] # "/" THEN 0
             ELSE IF Len(path) >= 2 /\ path[2] = "/"
                     /\ ~(Len(path) >= 3 /\ path[3] = "/")
             THEN 2 ELSE 1
           joined == JoinSlash(NormComps(Split(path, "/"), << >>, initial_slashes))
           rooted == [i \in 1..initial_slashes |-> "/"] \o joined
       IN IF rooted = << >> THEN <<".">> ELSE rooted

\* str.startswith
startswith(s, prefix) ==
  Len(s) >= Len(prefix) /\ SubSeq(s, 1, Len(prefix)) = prefix

\* line 325: normalized_path.startswith('..')
IsTraversal_FirstComponentOnly(normalized_path, file_path) ==
  startswith(file_path, <<".", ".">>)

IsTraversal(normalized_path, file_path) ==
  startswith(normalized_path, <<".", ".">>)

\* os.path.isabs (line 335)
isabs(path) == startswith(path, <<"/">>)

\* lines 337-342: the allow-list: os.path.expanduser('~/Downloads/') for the
\* user the server runs as, the working directory as os.getcwd() returns it
\* (no trailing separator)
allowed_prefixes(getcwd) ==
  { <<"/", "tmp", "/">>,
    <<"/", "var", "/", "tmp", "/">>,
    <<"/", "home", "/", "user", "/", "Downloads", "/">>,
    getcwd }

\* line 344: any(normalized_path.startswith(prefix) for prefix in ...)
InAllowedDirs(normalized_path, getcwd) ==
  \E prefix \in allowed_prefixes(getcwd) : startswith(normalized_path, prefix)

\* the dict literal of the tool's failure returns; file_path is the argument
ToolFailure(error, file_path) ==
  ("error" :> error) @@ ("success" :> FALSE) @@ ("file_path" :> file_path)

UnexpectedMsg == <<"Unexpected error processing file: ">>

\* lines 322-351: the checks made on the string alone; "pass" or the denial
StringChecks(file_path, getcwd) ==
  LET normalized_path == normpath(file_path)
  IN IF IsTraversal(normalized_path, file_path)
     THEN <<"Invalid file path - parent directory access not allowed">>
     ELSE IF isabs(normalized_path) /\ ~InAllowedDirs(normalized_path, getcwd)
     THEN <<"Absolute file paths outside allowed directories are not permitted">>
     ELSE <<"pass">>

\* the working directories the server is started in
Cwds == { <<"/", "srv", "/", "app">>, <<"/">> }

\* the file_path arguments explored
ToolPaths ==
  { <<".", ".", "/", ".", ".", "/", ".", ".", "/", "etc", "/", "passwd">>,
    <<"folder", "/", ".", ".", "/", ".", ".", "/", ".", ".", "/", "etc", "/", "passwd">>,
    <<"/", ".", ".", "/", ".", ".", "/", "sensitive_file", ".", "txt">>,
    <<"/", "etc", "/", "passwd">>,
    <<"/", "tmp", "/", ".", ".", "/", "etc", "/", "passwd">>,
    <<"/", "srv", "/", "app", "/", "data", ".", "txt">>,
    <<"/", "srv", "/", "app", "2", "/", "secret", ".", "txt">>,
    <<"/", "tmp", "/", "notes", ".", "Docx">>,
    <<"document", ".", "pdf">>,
    <<".", "/", "document", ".", "pdf">>,
    <<"data", "/", "files", "/", "document", ".", "pdf">>,
    <<"docs", "/">>,
    << >> }

\* what the lookup of the path finds when the tool is called
ToolEntries ==
  { Entry("absent", 0, FALSE), Entry("dir", DirSize, TRUE),
    Entry("noaccess", 0, FALSE), Entry("file", 10, TRUE),
    Entry("file", MaxMb * MB + 1, TRUE), Entry("file", 10, FALSE) }

InitTool ==
  /\ available \in BOOLEAN
  /\ max_file_size_mb = MaxMb
  /\ sys_has_office = TRUE
  /\ stat_ignores_oserror \in BOOLEAN
  /\ ConvIdle
  /\ TwiceIdle
  /\ AsyncIdle
  /\ cwd \in Cwds
  /\ ToolIdle
  /\ DispatchAtRest
  /\ LibAtRest

\* line 370: the path handed to self.doc_converter.convert_file_async
ConverterArg_Original(normalized_path, file_path) == file_path

ConverterArg(normalized_path, file_path) == normalized_path

\* line 370: await self.doc_converter.convert_file_async(normalized_path);
\* the converter's call starts on a worker
StartConversion ==
  /\ rf_pc' = "converting"
  /\ rf_eff' = [rf_eff EXCEPT !.lookups = @ + 1,
                              !.converterCalls = @ + 1,
                              !.converterArg = ConverterArg(rf_norm, rf_arg)]
  /\ call' = [op |-> "convert_file", file_path |-> ConverterArg(rf_norm, rf_arg)]
  /\ pc' = "cf_exists"
  /\ eff' = NoCallEffects
  /\ UNCHANGED <<rf_result, entry, handle, mime, rend, result, raised, fsChanges>>

\* lines 382-389: except Exception as e
HandleToolError_NoPath(exc_str, file_path) ==
  ("error" :> UnexpectedMsg \o exc_str) @@ ("success" :> FALSE)

HandleToolError(exc_str, file_path) ==
  ToolFailure(UnexpectedMsg \o exc_str, file_path)

\* the tool returns a failure dict of its own
ToolFails(failure, looked_up) ==
  /\ rf_result' = failure
  /\ rf_pc' = "done"
  /\ rf_eff' = [rf_eff EXCEPT !.lookups = @ + looked_up]
  /\ UNCHANGED <<pc, call, handle, mime, rend, result, raised, eff, fsChanges>>

\* lines 317-351: the tool is called; the path is normalized and checked as
\* a string
RF_call ==
  \E file_path \in ToolPaths, e \in ToolEntries :
    /\ pc = "idle"
    /\ rf_pc = "idle"
    /\ rf_arg' = file_path
    /\ rf_norm' = normpath(file_path)
    /\ entry' = e
    /\ IF StringChecks(file_path, cwd) # <<"pass">>
       THEN ToolFails(ToolFailure(StringChecks(file_path, cwd), file_path), 0)
       ELSE /\ rf_pc' = "guard_exists"
            /\ rf_eff' = [rf_eff EXCEPT !.entryAtGuard = e]
            /\ UNCHANGED <<rf_result, pc, call, handle, mime, rend,
                           result, raised, eff, fsChanges>>
    /\ UNCHANGED <<config, twiceVars, asyncVars, dispatchVars, libVars, cwd>>

\* line 357: path_obj.exists(); False ends the `and` and admits the path
RF_exists ==
  /\ rf_pc = "guard_exists"
  /\ LET found == PathExists(entry, stat_ignores_oserror)
     IN IF found = "True"
        THEN /\ rf_pc' = "guard_is_file"
             /\ rf_eff' = [rf_eff EXCEPT !.lookups = @ + 1]
             /\ UNCHANGED <<rf_result, pc, call, handle, mime, rend, result,
                            raised, eff, fsChanges>>
        ELSE IF found = "False"
        THEN StartConversion
        ELSE ToolFails(HandleToolError(OSErrorStr(entry.kind, rf_norm), rf_arg), 1)
  /\ UNCHANGED <<config, twiceVars, asyncVars, dispatchVars, libVars, cwd, rf_arg, rf_norm, entry>>

\* line 357: not path_obj.is_file()
RF_is_file_NoDenial ==
  /\ rf_pc = "guard_is_file"
  /\ LET regular == PathIsFile(entry, stat_ignores_oserror)
     IN IF regular \in {"True", "False"}
        THEN StartConversion
        ELSE ToolFails(HandleToolError(OSErrorStr(entry.kind, rf_norm), rf_arg), 1)
  /\ UNCHANGED <<config, twiceVars, asyncVars, dispatchVars, libVars, cwd, rf_arg, rf_norm, entry>>

RF_is_file ==
  /\ rf_pc = "guard_is_file"
  /\ LET regular == PathIsFile(entry, stat_ignores_oserror)
     IN IF regular = "True"
        THEN StartConversion
        ELSE IF regular = "False"
        THEN ToolFails(ToolFailure(<<"Path is not a regular file">>, rf_arg), 1)
        ELSE ToolFails(HandleToolError(OSErrorStr(entry.kind, rf_norm), rf_arg), 1)
  /\ UNCHANGED <<config, twiceVars, asyncVars, dispatchVars, libVars, cwd, rf_arg, rf_norm, entry>>

\* lines 370-389: the converter's call is over; its dict gets the normalized
\* path, its exception ends in the tool's except clause
RF_converted ==
  /\ rf_pc = "converting"
  /\ pc = "done"
  /\ rf_result' = IF raised = PyNone
                  THEN Set(result, "file_path", rf_norm)
                  ELSE HandleToolError(OSErrorStr(entry.kind, PathStr(rf_norm)),
                                       rf_arg)
  /\ rf_pc' = "done"
  /\ UNCHANGED <<config, twiceVars, asyncVars, dispatchVars, libVars, cwd, rf_arg, rf_norm, rf_eff,
                 convVars>>

\* the caller has taken the tool's result
RF_returns ==
  /\ rf_pc = "done"
  /\ rf_pc' = "idle"
  /\ rf_arg' = << >>
  /\ rf_norm' = << >>
  /\ rf_result' = << >>
  /\ rf_eff' = NoToolEffects
  /\ pc' = "idle"
  /\ call' = [op |-> "none"]
  /\ entry' = NoEntry
  /\ handle' = NoHandle
  /\ mime' = << >>
  /\ rend' = NoRend
  /\ result' = << >>
  /\ raised' = PyNone
  /\ eff' = NoCallEffects
  /\ fsChanges' = 0
  /\ UNCHANGED <<config, twiceVars, asyncVars, dispatchVars, libVars, cwd>>

NextTool ==
  \/ RF_call
  \/ RF_exists
  \/ RF_is_file
  \/ CF_exists
  \/ CF_is_file
  \/ CF_stat
  \/ CF_open
  \/ CF_convert
  \/ FsChange
  \/ RF_converted
  \/ RF_returns

SpecTool == InitTool /\ [][NextTool]_vars

\* ---------------------------------------------------------------------------
\* JiraMcpServer._handle_call_tool (mcp_server.py lines 184-214)
\* ---------------------------------------------------------------------------

RECURSIVE Serializable(_)
Serializable(v) ==
  /\ v.t # "bytes"
  /\ \A i \in DOMAIN v.o : Serializable(v.o[i][2])

\* json.dumps(value, indent=2), token by token without the white space
RECURSIVE Dumps(_)
RECURSIVE DumpMembers(_)
Dumps(v) ==
  CASE v.t = "str" -> <<"\"">> \o v.s \o <<"\"">>
    [] v.t = "bool" -> v.s
    [] OTHER -> <<"{">> \o DumpMembers(v.o) \o <<"}">>

DumpMembers(o) ==
  IF o = << >> THEN << >>
  ELSE <<"\"", o[1][1], "\"", ":">> \o Dumps(o[1][2])
         \o (IF Len(o) > 1 THEN <<",">> ELSE << >>)
         \o DumpMembers(Tail(o))

\* str(e): the message, for a KeyError the repr of the key
PyStr(e) ==
  IF e.type = "KeyError" THEN <<"'">> \o e.arg \o <<"'">> ELSE e.arg

\* lines 189-198: the handler table
handlers ==
  { <<"jira_", "get_issue">>, <<"jira_", "update_description">>,
    <<"jira_", "add_comment">>, <<"jira_", "upload_attachment">>,
    <<"jira_", "download_attachments">>,
    <<"jira_", "read_attachment_content">>, <<"jira_", "search_issues">>,
    <<"read_file">> }

\* the tool names a client sends
ToolNames == handlers \cup { <<"jira_", "delete_issue">>, <<"shell">> }

\* the arguments a client sends, decoded from the JSON request
ArgumentsSent ==
  { JObj(<< >>),
    JObj(<< <<"file_path", JStr(<<"document", ".", "pdf">>)>> >>),
    JObj(<< <<"issue_key", JStr(<<"PROJ-1">>)>>,
            <<"comment", JStr(<<"done">>)>> >>) }

\* what awaiting the handler does: it returns a dict or raises
Returns(value) == [kind |-> "returns", value |-> value, exc |-> [type |-> "", arg |-> << >>]]
Raises(type, arg) == [kind |-> "raises", value |-> JObj(<< >>), exc |-> [type |-> type, arg |-> arg]]

HandlerOutcomes(name, arguments) ==
  IF name = <<"read_file">> /\ ~(\E i \in DOMAIN arguments.o : arguments.o[i][1] = "file_path")
  THEN {Raises("KeyError", <<"file_path">>)}     \* line 317
  ELSE { Returns(JObj(<< <<"success", JBool(TRUE)>>,
                         <<"markdown", JStr(<<"# Hello, World!">>)>> >>)),
         Returns(JObj(<< <<"error", JStr(<<"File does not exist">>)>>,
                         <<"success", JBool(FALSE)>> >>)),
         Returns(JObj(<< <<"content", [t |-> "bytes", s |-> << >>, o |-> << >>]>> >>)),
         Raises("ValueError", <<"Issue PROJ-1 not found">>),
         Raises("AttributeError",
                <<"'NoneType' object has no attribute 'get'">>),
         Raises("RuntimeError", << >>) }

MissingCredentialsMsg ==
  <<"Missing JIRA credentials. Please set environment variables: ",
    "JIRA_URL, JIRA_USER, JIRA_API_TOKEN">>

\* lines 207-214: the payload of the outer except clause
ErrorResult_NoArguments(e, name, arguments) ==
  JObj(<< <<"error", JStr(PyStr(e))>>,
          <<"tool", JStr(name)>> >>)

ErrorResult(e, name, arguments) ==
  JObj(<< <<"error", JStr(PyStr(e))>>,
          <<"tool", JStr(name)>>,
          <<"arguments", arguments>> >>)

TextContent(text) == [type |-> "text", text |-> text]

\* lines 467-469: the environment variables _initialize_jira_client reads
JiraVariables == {"JIRA_URL", "JIRA_USER", "JIRA_API_TOKEN"}

\* line 186: not self.jira_client and name.startswith("jira_")
NeedsClient_AnyTool(client, name) == ~client

NeedsClient(client, name) == ~client /\ startswith(name, <<"jira_">>)

\* lines 200-201: handlers.get(name) finds a handler
LookupHandler_ByPrefix(name) ==
  name \in handlers \/ startswith(name, <<"jira_">>)

LookupHandler(name) == name \in handlers

InitDispatch ==
  /\ available = TRUE
  /\ max_file_size_mb = MaxMb
  /\ sys_has_office = TRUE
  /\ stat_ignores_oserror = FALSE
  /\ ConvIdle
  /\ TwiceIdle
  /\ AsyncIdle
  /\ ToolAtRest
  /\ jira_client = FALSE
  /\ env_credentials \in SUBSET JiraVariables
  /\ dp_pc = "idle"
  /\ dp = NoDispatchFrame
  /\ dp_failedBefore = FALSE
  /\ LibAtRest

DispatchOthers == <<config, convVars, twiceVars, asyncVars, toolVars, libVars>>

\* one call of _handle_call_tool(name, arguments), the handler awaited
DP_call ==
  \E name \in ToolNames, arguments \in ArgumentsSent :
    \E outcome \in HandlerOutcomes(name, arguments) :
      LET needs_client == NeedsClient(jira_client, name)
          frame == [NoDispatchFrame EXCEPT !.name = name,
                                           !.arguments = arguments,
                                           !.clientBefore = jira_client,
                                           !.initCalls =
                                              IF needs_client THEN 1 ELSE 0]
          \* the dict the handler returned cannot be serialized: json.dumps
          \* raises TypeError inside the try block
          e == IF outcome.kind = "raises" THEN outcome.exc
               ELSE [type |-> "TypeError",
                     arg |-> <<"Object of type bytes is not JSON serializable">>]
      IN /\ dp_pc = "idle"
         /\ dp_pc' = "done"
         /\ IF needs_client /\ env_credentials # JiraVariables  \* line 471
            THEN \* lines 471-477: _initialize_jira_client raises
                 /\ dp' = [frame EXCEPT !.raised = Some(MissingCredentialsMsg),
                                        !.logged = 1]
                 /\ UNCHANGED jira_client
            ELSE /\ jira_client' = (jira_client \/ needs_client)
                 /\ IF ~LookupHandler(name)
                    THEN \* line 202
                         /\ dp' = [frame EXCEPT
                                     !.raised = Some(<<"Unknown tool: ">> \o name)]
                    ELSE IF outcome.kind = "returns" /\ Serializable(outcome.value)
                    THEN /\ dp' = [frame EXCEPT
                                     !.handlerRuns = 1,
                                     !.payloads = <<TextContent(Dumps(outcome.value))>>]
                    ELSE /\ dp' = [frame EXCEPT
                                     !.handlerRuns = 1,
                                     !.handlerRaised = (outcome.kind = "raises"),
                                     !.exc = e,
                                     !.logged = 1,
                                     !.payloads =
                                        <<TextContent(Dumps(ErrorResult(e, name, arguments)))>>]
         /\ UNCHANGED <<env_credentials, dp_failedBefore, DispatchOthers>>

\* the MCP server has sent the response (or the error) of the call
DP_returns ==
  /\ dp_pc = "done"
  /\ dp_pc' = "idle"
  /\ dp' = NoDispatchFrame
  /\ dp_failedBefore' = (dp_failedBefore \/ (dp.handlerRuns = 1 /\ dp.logged = 1))
  /\ UNCHANGED <<jira_client, env_credentials, DispatchOthers>>

\* the operator sets or unsets the JIRA credentials in the environment
EnvChange ==
  /\ dp_pc = "idle"
  /\ \E v \in JiraVariables :
       env_credentials' = IF v \in env_credentials
                            THEN env_credentials \ {v}
                            ELSE env_credentials \cup {v}
  /\ UNCHANGED <<jira_client, dp_pc, dp, dp_failedBefore, DispatchOthers>>

NextDispatch ==
  \/ DP_call
  \/ DP_returns
  \/ EnvChange

SpecDispatch == InitDispatch /\ [][NextDispatch]_vars

\* ---------------------------------------------------------------------------
\* Module-level state: ConverterConfig defaults and the two singletons
\* ---------------------------------------------------------------------------

\* os.getenv(name, default)
getenv(env, name, default) ==
  IF env[name] = PyNone THEN default ELSE env[name][1]

\* int(s) for the decimal strings the environment holds
int(s) ==
  CASE s = <<"100">> -> 100
    [] s = <<"60">> -> 60
    [] s = <<"50">> -> 50
    [] s = <<"30">> -> 30
    [] OTHER -> 0

\* lines 38-40: the three default expressions of the ConverterConfig fields
ConfigFromEnv(env) ==
  [max_file_size_mb |-> int(getenv(env, "MAX_DOCUMENT_SIZE_MB", <<"50">>)),
   timeout_seconds |-> int(getenv(env, "DOCUMENT_CONVERSION_TIMEOUT", <<"30">>)),
   enable_detailed_logging |->
     Lower(getenv(env, "DOCUMENT_CONVERTER_DEBUG", << >>)) = <<"true">>]

\* the environments explored
Environments ==
  [{"MAX_DOCUMENT_SIZE_MB"} -> {PyNone, Some(<<"100">>)}]
    \X [{"DOCUMENT_CONVERSION_TIMEOUT"} -> {PyNone, Some(<<"60">>)}]
    \X [{"DOCUMENT_CONVERTER_DEBUG"} -> {PyNone, Some(<<"true">>), Some(<<"TRUE">>)}]


InitModule ==
  /\ available \in BOOLEAN
  /\ max_file_size_mb = MaxMb
  /\ sys_has_office = TRUE
  /\ stat_ignores_oserror = FALSE
  /\ ConvIdle
  /\ TwiceIdle
  /\ AsyncIdle
  /\ ToolAtRest
  /\ DispatchAtRest
  /\ \E t \in Environments : md_env = t[1] @@ t[2] @@ t[3]
  /\ md_loaded = FALSE
  /\ md_defaults = ConfigFromEnv(NoEnvironment)
  /\ md_config = PyNone
  /\ md_converter = NoInstances
  /\ md_detector = NoInstances
  /\ MimeAtRest
  /\ JsonAtRest
  /\ PagesAtRest

ModuleOthers ==
  <<config, convVars, twiceVars, asyncVars, toolVars, dispatchVars, mimeVars,
    jsonVars, pageVars>>

\* import of document_converter: the class body of ConverterConfig runs and
\* evaluates the field defaults (lines 35-40)
ModuleLoad ==
  /\ ~md_loaded
  /\ md_loaded' = TRUE
  /\ md_defaults' = ConfigFromEnv(md_env)
  /\ UNCHANGED <<md_env, md_config, md_converter, md_detector, ModuleOthers>>

\* the process (or a test's patch.dict) changes the environment
SetEnv ==
  /\ \E t \in Environments : md_env' = t[1] @@ t[2] @@ t[3] /\ md_env' # md_env
  /\ UNCHANGED <<md_loaded, md_defaults, md_config, md_converter, md_detector,
                 ModuleOthers>>

\* ConverterConfig() with no arguments: every field takes its default
NewConfig ==
  /\ md_loaded
  /\ md_config' = Some([config |-> md_defaults, environ |-> md_env])
  /\ UNCHANGED <<md_env, md_loaded, md_defaults, md_converter, md_detector,
                 ModuleOthers>>

\* `if _instance is None` (document_converter.py line 347, mime_utils.py
\* line 137)
IsNone_Always(singleton) == TRUE

IsNone(singleton) == singleton.instance = 0

\* the singleton after one call of its getter: constructed when none is
\* there, and in every case returned
Get(singleton) ==
  LET made == IF IsNone(singleton) THEN singleton.constructed + 1
              ELSE singleton.constructed
      inst == IF IsNone(singleton) THEN made ELSE singleton.instance
  IN [instance |-> inst, constructed |-> made,
      returned |-> Append(singleton.returned, inst)]

\* get_converter(); the constructor of the first call asks for the detector
\* (line 75)
GetConverter ==
  /\ md_loaded
  /\ Len(md_converter.returned) < MaxGets
  /\ md_converter' = Get(md_converter)
  /\ md_detector' = IF IsNone(md_converter) THEN Get(md_detector)
                    ELSE md_detector
  /\ UNCHANGED <<md_env, md_loaded, md_defaults, md_config, ModuleOthers>>

\* get_mime_detector()
GetMimeDetector ==
  /\ md_loaded
  /\ Len(md_detector.returned) < MaxGets
  /\ md_detector' = Get(md_detector)
  /\ UNCHANGED <<md_env, md_loaded, md_defaults, md_config, md_converter,
                 ModuleOthers>>

NextModule ==
  \/ ModuleLoad
  \/ SetEnv
  \/ NewConfig
  \/ GetConverter
  \/ GetMimeDetector

SpecModule == InitModule /\ [][NextModule]_vars

\* ---------------------------------------------------------------------------
\* MimeTypeDetector applied to single inputs
\* ---------------------------------------------------------------------------

\* the extensions handed to detect_from_extension
ExtensionInputs ==
  { <<".", "pdf">>, <<".", "PDF">>, <<".", "txt">>, <<".", "docx">>,
    <<".", "Docx">>, <<".", "xlsx">>, <<".", "pptx">>, <<".", "doc">>,
    <<".", "xls">>, <<".", "ppt">>, <<".", "zzz">>, << >> }

\* the strings handed to is_supported
MimeStrings ==
  { Mime("application", "pdf"), Mime("text", "plain"), Mime("audio", "wav"),
    Mime("application", "epub+zip"), Mime("text", "custom"),
    Mime("image", "custom"), Mime("video", "mp4"),
    Mime("application", "x-totally-unknown"), Mime("TEXT", "plain"),
    <<"text">>, <<"image">>, <<"plain">>, <<"/", "plain">>, <<"text", "/">>,
    << >> }

InitMime ==
  /\ available = TRUE
  /\ max_file_size_mb = MaxMb
  /\ sys_has_office \in BOOLEAN
  /\ stat_ignores_oserror = FALSE
  /\ ConvIdle
  /\ TwiceIdle
  /\ AsyncIdle
  /\ ToolAtRest
  /\ DispatchAtRest
  /\ ModuleAtRest
  /\ mt_ext \in ExtensionInputs
  /\ mt_mime \in MimeStrings
  /\ mt_detected = PyNone
  /\ mt_supported = PyNone
  /\ JsonAtRest
  /\ PagesAtRest

MimeOthers ==
  <<config, convVars, twiceVars, asyncVars, toolVars, dispatchVars, moduleVars,
    jsonVars, pageVars>>

\* detector.detect_from_extension(mt_ext)
Detect ==
  /\ mt_detected = PyNone
  /\ mt_detected' = Some(detect_from_extension(sys_has_office, mt_ext))
  /\ UNCHANGED <<mt_ext, mt_mime, mt_supported, MimeOthers>>

\* detector.is_supported(mt_mime)
CheckSupported ==
  /\ mt_supported = PyNone
  /\ mt_supported' = Some(Detector_is_supported(mt_mime))
  /\ UNCHANGED <<mt_ext, mt_mime, mt_detected, MimeOthers>>

NextMime ==
  \/ Detect
  \/ CheckSupported

SpecMime == InitMime /\ [][NextMime]_vars

\* ---------------------------------------------------------------------------
\* JsonValidator (json_validator.py)
\* ---------------------------------------------------------------------------

\* JSON scalars
Leaf(t, s) == [t |-> t, s |-> s]

InnerKeys == {"name", "age"}

\* an object none of whose members is present
NoMembers == [k \in InnerKeys |-> PyNone]

Keys == {"id", "tags", "user"}

\* the documents in the two files: an object with up to three members, each
\* a scalar (the integers 1 and 2, the string "1"), a list of scalars or an
\* object with scalar members (an absent member is PyNone)
Documents ==
  LET Scalar(l) == [t |-> l.t, s |-> l.s, items |-> << >>, d |-> NoMembers]
      List(items) == [t |-> "list", s |-> "", items |-> items, d |-> NoMembers]
      Object(d) == [t |-> "dict", s |-> "", items |-> << >>, d |-> d]
      one == Leaf("int", "1")
      two == Leaf("int", "2")
  IN { [k \in Keys |-> CASE k = "id" -> id [] k = "tags" -> tags [] OTHER -> user] :
         id \in {PyNone, Some(Scalar(one)), Some(Scalar(Leaf("str", "1")))},
         tags \in {PyNone, Some(List(<<one>>)), Some(List(<<one, two>>)),
                   Some(List(<<two, one>>)), Some(List(<<two>>)),
                   Some(Scalar(one))},
         user \in {PyNone, Some(Object(NoMembers)),
                   Some(Object([NoMembers EXCEPT !["name"] = Some(one)])),
                   Some(Object([NoMembers EXCEPT !["name"] = Some(two)])),
                   Some(Object([k \in InnerKeys |-> Some(one)]))} }

\* what open() and json.load find at a file path: no file, a file that is
\* not JSON, or a document
JsonFiles ==
  LET none == [k \in Keys |-> PyNone]
  IN {[kind |-> "missing", data |-> none], [kind |-> "invalid", data |-> none]}
       \cup {[kind |-> "json", data |-> doc] : doc \in Documents}

\* DeepDiff paths
Member(path, k) == path \o <<"['", k, "']">>
Item(path, i) == path \o <<"[", ToString(i), "]">>

\* the elements of a list
Elements(items) == {items[i] : i \in 1..Len(items)}

\* DeepDiff(baseline, comparison, ignore_order=True): the entries of the
\* report, each with its category and path
DeepDiff(t1, t2, pairs) ==
  LET Delta(cat, path, old, new) ==
        [cat |-> cat, path |-> path, old |-> old, new |-> new]
      \* two scalars
      LeafDiff(path, a, b) ==
        IF a = b THEN {}
        ELSE IF a.t # b.t THEN {Delta("type_changes", path, a, b)}
        ELSE {Delta("values_changed", path, a, b)}
      \* the first index of an element in a list
      IndexOf(items, x) == CHOOSE i \in 1..Len(items) :
        items[i] = x /\ \A j \in 1..(i - 1) : items[j] # x
      \* two lists are compared as sets of elements; an element of one side
      \* only is an iterable_item_added or iterable_item_removed, unless the
      \* library pairs a removed element with an added one (pairs) and
      \* reports the pair as a change of the element
      ListDiff(path, xs, ys) ==
        LET removed == Elements(xs) \ Elements(ys)
            added == Elements(ys) \ Elements(xs)
            paired == pairs /\ removed # {} /\ added # {}
            r == CHOOSE x \in removed : TRUE
            a == CHOOSE y \in added : TRUE
        IN (IF paired THEN LeafDiff(Item(path, IndexOf(xs, r)), r, a) ELSE {})
           \cup { Delta("iterable_item_removed", Item(path, IndexOf(xs, x)), x, x) :
                    x \in IF paired THEN removed \ {r} ELSE removed }
           \cup { Delta("iterable_item_added", Item(path, IndexOf(ys, y)), y, y) :
                    y \in IF paired THEN added \ {a} ELSE added }
      \* the members of two objects with scalar members
      MembersDiff(path, d1, d2) ==
        UNION { IF d1[k] = PyNone /\ d2[k] = PyNone THEN {}
                ELSE IF d1[k] = PyNone
                  THEN {Delta("dictionary_item_added", Member(path, k),
                              d2[k][1], d2[k][1])}
                ELSE IF d2[k] = PyNone
                  THEN {Delta("dictionary_item_removed", Member(path, k),
                              d1[k][1], d1[k][1])}
                ELSE LeafDiff(Member(path, k), d1[k][1], d2[k][1]) :
                k \in InnerKeys }
      \* two values below the root
      ValueDiff(path, a, b) ==
        IF a = b THEN {}
        ELSE IF a.t # b.t
          THEN {Delta("type_changes", path, Leaf(a.t, a.s), Leaf(b.t, b.s))}
        ELSE IF a.t = "list" THEN ListDiff(path, a.items, b.items)
        ELSE IF a.t = "dict" THEN MembersDiff(path, a.d, b.d)
        ELSE {Delta("values_changed", path, Leaf(a.t, a.s), Leaf(b.t, b.s))}
  IN UNION { IF t1[k] = PyNone /\ t2[k] = PyNone THEN {}
             ELSE IF t1[k] = PyNone
               THEN {Delta("dictionary_item_added", Member(<<"root">>, k),
                           Leaf(t2[k][1].t, ""), Leaf(t2[k][1].t, ""))}
             ELSE IF t2[k] = PyNone
               THEN {Delta("dictionary_item_removed", Member(<<"root">>, k),
                           Leaf(t1[k][1].t, ""), Leaf(t1[k][1].t, ""))}
             ELSE ValueDiff(Member(<<"root">>, k), t1[k][1], t2[k][1]) :
             k \in Keys }

\* JsonValidator.compare_json: the lines for the four categories it reads
compare_json(baseline, comparison, pairs) ==
  LET diff == DeepDiff(baseline, comparison, pairs)
      \* the order in which a category lists its paths
      order ==
        << Member(<<"root">>, "id"), Member(<<"root">>, "tags"),
           Item(Member(<<"root">>, "tags"), 1), Item(Member(<<"root">>, "tags"), 2),
           Member(<<"root">>, "user"),
           Member(Member(<<"root">>, "user"), "name"),
           Member(Member(<<"root">>, "user"), "age") >>
      Describe(e) ==
        CASE e.cat = "dictionary_item_added" -> <<"Added: ">> \o e.path
          [] e.cat = "dictionary_item_removed" -> <<"Removed: ">> \o e.path
          [] e.cat = "values_changed" ->
               <<"Changed: ">> \o e.path
                 \o <<" from '", e.old.s, "' to '", e.new.s, "'">>
          [] e.cat = "type_changes" ->
               <<"Type changed: ">> \o e.path
                 \o <<" from ", e.old.t, " to ", e.new.t>>
      Category(cat) ==
        LET Listed(p) == \E e \in diff : e.cat = cat /\ e.path = p
            paths == SelectSeq(order, Listed)
        IN [i \in 1..Len(paths) |->
              Describe(CHOOSE e \in diff : e.cat = cat /\ e.path = paths[i])]
  IN Category("dictionary_item_added") \o Category("dictionary_item_removed")
       \o Category("values_changed") \o Category("type_changes")

\* JsonValidator.validate_files: the result dict, or the ValidationError
\* load_json_file raises
validate_files(baseline_file, baseline, comparison_file, comparison, pairs) ==
  LET LoadError(file_path, file) ==
        CASE file.kind = "missing" -> <<"File not found: ", file_path>>
          [] file.kind = "invalid" -> <<"Invalid JSON in ", file_path, ": ", "<e>">>
          [] OTHER -> << >>
      Raised(msg) ==
        [raised |-> "ValidationError", message |-> msg, status |-> "",
         differences |-> << >>, baseline_file |-> "", comparison_file |-> ""]
  IN IF LoadError(baseline_file, baseline) # << >>
       THEN Raised(LoadError(baseline_file, baseline))
     ELSE IF LoadError(comparison_file, comparison) # << >>
       THEN Raised(LoadError(comparison_file, comparison))
     ELSE LET differences == compare_json(baseline.data, comparison.data, pairs)
          IN [raised |-> "", message |-> << >>,
              status |-> IF differences = << >> THEN "PASS" ELSE "FAIL",
              differences |-> differences, baseline_file |-> baseline_file,
              comparison_file |-> comparison_file]

InitJson ==
  /\ available = TRUE
  /\ max_file_size_mb = MaxMb
  /\ sys_has_office = TRUE
  /\ stat_ignores_oserror = FALSE
  /\ ConvIdle
  /\ TwiceIdle
  /\ AsyncIdle
  /\ ToolAtRest
  /\ DispatchAtRest
  /\ ModuleAtRest
  /\ MimeAtRest
  /\ jv_baseline \in JsonFiles
  /\ jv_comparison \in JsonFiles
  /\ jv_result = PyNone
  /\ PagesAtRest

\* validator.validate_files("baseline.json", "comparison.json")
ValidateFiles ==
  /\ jv_result = PyNone
  /\ \E pairs \in BOOLEAN :
       jv_result' = Some(validate_files("baseline.json", jv_baseline,
                                        "comparison.json", jv_comparison, pairs))
  /\ UNCHANGED <<jv_baseline, jv_comparison, config, convVars, twiceVars,
                 asyncVars, toolVars, dispatchVars, moduleVars, mimeVars,
                 pageVars>>

NextJson == ValidateFiles

SpecJson == InitJson /\ [][NextJson]_vars

\* ---------------------------------------------------------------------------
\* paginate_commits (script/doc_agent.py)
\* ---------------------------------------------------------------------------

\* a page of a commit listing: the listing filtered by branch and since
\* ("filtered") or the listing the bare commits URL gives ("plain")
Page(listing, number) == [listing |-> listing, number |-> number]

\* line 69: the commits URL of the repository
CommitsUrl == Page("commits", 0)

NoUrl == Page("", 0)

\* the Link header of a page: the parts GitHub sends, in its order; no
\* header at all for a listing of one page
LinkHeader(page) ==
  LET n == IF page.listing = "filtered" THEN pg_filtered ELSE pg_plain
      Part(number, rel) == [url |-> Page(page.listing, number), rel |-> rel]
  IN IF n = 1 THEN << >>
     ELSE (IF page.number > 1 THEN <<Part(page.number - 1, "prev")>> ELSE << >>)
          \o (IF page.number < n
                THEN <<Part(page.number + 1, "next"), Part(n, "last")>>
                ELSE << >>)
          \o (IF page.number > 1 THEN <<Part(1, "first")>> ELSE << >>)

\* the page the server answers a request with
Respond(url, params) ==
  IF url = CommitsUrl
  THEN (IF params THEN Page("filtered", 1) ELSE Page("plain", 1))
  ELSE url

\* lines 77-78 and 100-101: 'rel="next"' in link
HasNext(link) == \E i \in 1..Len(link) : link[i].rel = "next"

\* lines 80-88: the URL of the first part with rel="next"
NextUrl(link) ==
  IF HasNext(link)
  THEN link[CHOOSE i \in 1..Len(link) :
              link[i].rel = "next" /\ \A j \in 1..(i - 1) : link[j].rel # "next"].url
  ELSE NoUrl

InitPages ==
  /\ available = TRUE
  /\ max_file_size_mb = MaxMb
  /\ sys_has_office = TRUE
  /\ stat_ignores_oserror = FALSE
  /\ ConvIdle
  /\ TwiceIdle
  /\ AsyncIdle
  /\ ToolAtRest
  /\ DispatchAtRest
  /\ ModuleAtRest
  /\ MimeAtRest
  /\ JsonAtRest
  /\ pg_filtered \in 1..MaxPages
  /\ pg_plain \in 1..MaxPages
  /\ pg_pc = "idle"
  /\ pg_params = FALSE
  /\ pg_next = NoUrl
  /\ pg_commits = << >>
  /\ pg_requests = << >>

PagesOthers ==
  <<config, convVars, twiceVars, asyncVars, toolVars, dispatchVars,
    moduleVars, mimeVars, jsonVars>>

\* lines 68-71: paginate_commits is called
PG_call ==
  /\ pg_pc = "idle"
  /\ pg_pc' = "loop"
  /\ pg_params' = TRUE
  /\ pg_commits' = << >>
  /\ UNCHANGED <<pg_filtered, pg_plain, pg_next, pg_requests, PagesOthers>>

\* lines 73-90: the head of the loop body: api_get(url, token, params)
PG_api_get ==
  /\ pg_pc = "loop"
  /\ Len(pg_requests) < MaxRequests
  /\ LET page == Respond(CommitsUrl, pg_params)
         link == LinkHeader(page)
     IN /\ pg_requests' =
             Append(pg_requests, [how |-> "api_get", url |-> CommitsUrl,
                                  params |-> pg_params, page |-> page])
        /\ pg_commits' = pg_commits \o <<page>>      \* extend(resp.json())
        /\ IF ~HasNext(link) \/ NextUrl(link) = NoUrl
           THEN pg_pc' = "returned" /\ pg_next' = NoUrl
           ELSE pg_pc' = "follow" /\ pg_next' = NextUrl(link)
  /\ UNCHANGED <<pg_filtered, pg_plain, pg_params, PagesOthers>>

\* lines 91-105: the rest of the loop body: requests.get(next_url)
PG_follow ==
  /\ pg_pc = "follow"
  /\ Len(pg_requests) < MaxRequests
  /\ LET page == Respond(pg_next, FALSE)
         link == LinkHeader(page)
     IN /\ pg_requests' =
             Append(pg_requests, [how |-> "get", url |-> pg_next,
                                  params |-> FALSE, page |-> page])
        /\ pg_params' = FALSE
        /\ pg_commits' = pg_commits \o <<page>>      \* extend(resp.json())
        /\ pg_pc' = IF ~HasNext(link) THEN "returned" ELSE "loop"
  /\ UNCHANGED <<pg_filtered, pg_plain, pg_next, PagesOthers>>

NextPages ==
  \/ PG_call
  \/ PG_api_get
  \/ PG_follow

SpecPages == InitPages /\ [][NextPages]_vars

\* ====================================================================
\* Properties
\* ====================================================================
Done == pc = "done"
Returned == pc = "done" /\ raised = PyNone
CalledCTM == call.op = "convert_to_markdown"
CalledCF == call.op = "convert_file"
Has(key) == key \in DOMAIN result
Limit == max_file_size_mb * MB
Abs(x) == IF x < 0 THEN -x ELSE x

StartsWith(s, prefix) ==
  Len(s) >= Len(prefix) /\ SubSeq(s, 1, Len(prefix)) = prefix

HasPiece(s, piece) == \E i \in 1..Len(s) : s[i] = piece

\* the MIME type and the size the conversion of this call works on
CallMime == IF CalledCTM THEN call.mime_type ELSE mime
CallSize == IF CalledCTM THEN call.file_stream.size ELSE handle.size

PdfType == <<"application", "/", "pdf">>
DocxType ==
  <<"application", "/",
    "vnd.openxmlformats-officedocument.wordprocessingml.document">>

\* what the documentation promises for the explored paths
ExpectedName(file_path) ==
  CASE file_path = <<"hello", ".", "txt">> -> <<"hello", ".", "txt">>
    [] file_path = <<"data", "/", "report", ".", "PDF">> -> <<"report", ".", "PDF">>
    [] file_path = <<"/", "tmp", "/", "notes", ".", "Docx">> -> <<"notes", ".", "Docx">>
    [] file_path = <<".", "/", "archive", ".", "zzz">> -> <<"archive", ".", "zzz">>
    [] file_path = <<"docs", "/">> -> <<"docs">>

ExpectedMime(file_path) ==
  CASE file_path = <<"hello", ".", "txt">> -> <<"text", "/", "plain">>
    [] file_path = <<"data", "/", "report", ".", "PDF">> -> PdfType
    [] file_path = <<"/", "tmp", "/", "notes", ".", "Docx">> -> DocxType
    [] OTHER -> <<"application", "/", "octet-stream">>

\* C1: convert_to_markdown and convert_file always hand their caller a
\* result with a boolean success flag; no exception leaves them.
C1_NoExceptionPropagates ==
  Done => /\ raised = PyNone
          /\ Has("success")
          /\ result.success \in BOOLEAN

\* C2: a result of convert_to_markdown has markdown and size_bytes exactly
\* when success is true and error exactly when success is false.
C2_ExactlyOnePopulated ==
  (Returned /\ eff.ctmCalls = 1) =>
    /\ Has("markdown") <=> result.success
    /\ Has("size_bytes") <=> result.success
    /\ Has("error") <=> ~result.success

\* C3: with the capability available, an unsupported MIME type is refused
\* with 'Unsupported file type: <mime_type>' before the content is measured
\* or rendered, whatever its size; the stream position is untouched.
C3_UnsupportedBeforeAnyWork ==
  (Done /\ CalledCTM /\ available /\ ~Detector_is_supported(call.mime_type)) =>
    /\ raised = PyNone
    /\ result.success = FALSE
    /\ result.error = <<"Unsupported file type: ">> \o call.mime_type
    /\ ~Has("markdown")
    /\ eff.measures = 0
    /\ eff.renderCalls = 0
    /\ eff.pos = call.file_stream.pos

C3_Witness ==
  /\ Done /\ CalledCTM /\ available
  /\ call.mime_type = <<"application", "/", "x-totally-unknown">>
  /\ call.file_stream.kind = "stream"
  /\ call.file_stream.size > Limit
  /\ result.success = FALSE
  /\ eff.measures = 0

\* C4: with the capability unavailable, convert_to_markdown fails at once
\* with a 'not available' message for every type and size, without asking
\* the MIME resolver, measuring or rendering; is_supported is false for
\* every type and the two capability lists are empty.
C4_UnavailableFailsImmediately ==
  ~available =>
    /\ (Done /\ eff.ctmCalls = 1) =>
         /\ raised = PyNone
         /\ result.success = FALSE
         /\ HasPiece(result.error, "Document conversion not available. ")
         /\ eff.mimeChecks = 0
         /\ eff.measures = 0
         /\ eff.renderCalls = 0
    /\ \A m \in MimeInputs \cup SUPPORTED_MIME_TYPES : ~is_supported(available, m)
    /\ get_supported_formats(available) = << >>
    /\ get_supported_extensions(available, sys_has_office) = << >>

C4_Witness ==
  /\ Done /\ CalledCTM /\ ~available
  /\ call.mime_type = PdfType
  /\ call.file_stream.size > Limit
  /\ HasPiece(result.error, "Document conversion not available. ")

\* the message names the actual size, rounded to a tenth of a MB, and the
\* maximum size in MB
ShowsBothSizes(msg, n, mb) ==
  \E t \in 0..(10 * MaxMb + 10) :
    /\ 2 * Abs(10 * n - t * MB) <= MB
    /\ msg = <<"File too large (", ToString(t \div 10), ".", ToString(t % 10),
               "MB). ", "Maximum size: ", ToString(mb), ".", "0", "MB">>

\* C5: content of exactly max_file_size_mb * 1048576 bytes is never refused
\* for its size; one byte more (or more) is refused with success false and
\* a 'too large' error naming both sizes, and the filename is kept.
C5_StrictSizeCeiling ==
  (Done /\ CalledCTM /\ available /\ Detector_is_supported(call.mime_type)
        /\ ~call.file_stream.closed) =>
    /\ call.file_stream.size <= Limit =>
         ~(Has("error") /\ HasPiece(result.error, "File too large ("))
    /\ call.file_stream.size > Limit =>
         /\ result.success = FALSE
         /\ HasPiece(result.error, "File too large (")
         /\ ShowsBothSizes(result.error, call.file_stream.size, max_file_size_mb)
         /\ Truthy(call.filename) => result.filename = call.filename[1]

C5_Witness ==
  /\ Done /\ CalledCTM /\ available
  /\ call.file_stream.kind = "bytes"
  /\ call.file_stream.size = Limit + 1
  /\ call.mime_type = <<"text", "/", "plain">>
  /\ HasPiece(result.error, "File too large (")
  /\ result.filename = <<"test", ".", "pdf">>

\* C6: one call invokes the renderer at most once, and only when the
\* capability is available, the type supported and the size within the
\* limit; limit+1 bytes of application/pdf fail with 'too large' and no
\* renderer call; a renderer failure is not retried.
C6_RendererAtMostOnce ==
  Done =>
    /\ eff.renderCalls <= 1
    /\ eff.renderCalls >= 1 =>
         /\ available
         /\ Detector_is_supported(CallMime)
         /\ CallSize <= Limit
    /\ (CalledCTM /\ available /\ call.mime_type = PdfType
          /\ call.file_stream.kind = "bytes"
          /\ call.file_stream.size = Limit + 1) =>
         /\ result.success = FALSE
         /\ HasPiece(result.error, "File too large (")
         /\ eff.renderCalls = 0

C6_Witness ==
  /\ Done /\ CalledCTM
  /\ rend.kind = "error"
  /\ eff.renderCalls = 1
  /\ result.success = FALSE

\* C7 as stated: an import error gives 'Missing dependency for <mime>: ',
\* any other exception 'Conversion failed: ', and every normal return of
\* the renderer gives success true.
C7_EveryNormalReturnSucceeds ==
  (Done /\ eff.renderCalls = 1) =>
    /\ rend.kind = "import_error" =>
         /\ result.success = FALSE
         /\ StartsWith(result.error,
                       <<"Missing dependency for ">> \o CallMime \o <<": ">>)
    /\ rend.kind = "error" =>
         /\ result.success = FALSE
         /\ StartsWith(result.error, <<"Conversion failed: ">>)
    /\ rend.kind \in {"text", "none_text", "no_attr"} => result.success = TRUE

\* C7 as amended: an import error gives 'Missing dependency for <mime>: ',
\* any other exception 'Conversion failed: ', a normal return that carries
\* text gives success true, and a normal return without usable text is
\* reported under 'Conversion failed: '.
C7_OutcomeMapping ==
  (Done /\ eff.renderCalls = 1) =>
    /\ rend.kind = "import_error" =>
         /\ result.success = FALSE
         /\ StartsWith(result.error,
                       <<"Missing dependency for ">> \o CallMime \o <<": ">>)
    /\ rend.kind = "error" =>
         /\ result.success = FALSE
         /\ StartsWith(result.error, <<"Conversion failed: ">>)
    /\ rend.kind = "text" =>
         /\ result.success = TRUE
         /\ ~Has("error")
    /\ rend.kind \in {"none_text", "no_attr"} =>
         /\ result.success = FALSE
         /\ StartsWith(result.error, <<"Conversion failed: ">>)

C7_Witness ==
  /\ Done /\ eff.renderCalls = 1
  /\ rend.kind = "import_error"
  /\ StartsWith(result.error, <<"Missing dependency for ">>)

\* C8: for an existing readable regular file of n <= limit bytes whose
\* lower-cased extension resolves to a supported type, and a renderer that
\* returns text t, convert_file returns success, markdown t, the basename,
\* size_bytes n and the resolved type.
C8_ConvertFileSuccess ==
  (Done /\ CalledCF /\ fsChanges = 0 /\ available
        /\ entry.kind = "file" /\ entry.readable /\ entry.size <= Limit
        /\ Detector_is_supported(ExpectedMime(call.file_path))
        /\ rend.kind = "text") =>
    /\ raised = PyNone
    /\ result = ("success" :> TRUE) @@ ("markdown" :> Some(rend.text))
                @@ ("filename" :> ExpectedName(call.file_path))
                @@ ("size_bytes" :> entry.size)
                @@ ("mime_type" :> ExpectedMime(call.file_path))

C8_Witness ==
  /\ Done /\ CalledCF
  /\ call.file_path = <<"hello", ".", "txt">>
  /\ entry = Entry("file", 10, TRUE)
  /\ Has("size_bytes") /\ result.size_bytes = 10
  /\ result.success = TRUE

OwnTooLarge ==
  HasPiece(result.error, "File too large (") /\ ~Has("mime_type")

\* C9: convert_file checks existence, then regular file, then the on-disk
\* size, and stops at the first violation with 'File does not exist',
\* 'Path is not a file' or 'File too large'; in these cases the file is not
\* opened and neither convert_to_markdown nor the renderer is invoked.
C9_ValidationOrder ==
  (Done /\ CalledCF) =>
    /\ (fsChanges = 0 /\ entry.kind = "absent") =>
         /\ Returned
         /\ result.error = <<"File does not exist: ">> \o call.file_path
    /\ (fsChanges = 0 /\ entry.kind = "dir") =>
         /\ Returned
         /\ result.error = <<"Path is not a file: ">> \o call.file_path
    /\ (fsChanges = 0 /\ entry.kind = "file" /\ entry.size > Limit) =>
         /\ Returned
         /\ OwnTooLarge
    /\ (Returned /\ Has("error")
          /\ \/ StartsWith(result.error, <<"File does not exist: ">>)
             \/ StartsWith(result.error, <<"Path is not a file: ">>)
             \/ OwnTooLarge) =>
         /\ result.success = FALSE
         /\ eff.opens = 0
         /\ eff.ctmCalls = 0
         /\ eff.renderCalls = 0

C9_Witness ==
  /\ Done /\ CalledCF /\ fsChanges = 0
  /\ entry.kind = "dir"
  /\ StartsWith(result.error, <<"Path is not a file: ">>)
  /\ eff.opens = 0

\* C10: when, after the existence and regular-file checks have passed, the
\* stat or the open fails, convert_file returns success false with
\* 'Permission denied: ' for a permission error, 'File not found: ' for a
\* vanished file and 'Failed to read file: ' for anything else, with the
\* basename as filename and without a renderer call.
C10_FaultAfterChecks ==
  (Done /\ CalledCF /\ eff.stats = 3 /\ eff.opens = 0
        /\ ~(entry.kind = "file" /\ entry.size > Limit)) =>
    /\ Returned
    /\ result.success = FALSE
    /\ result.filename = ExpectedName(call.file_path)
    /\ eff.renderCalls = 0
    /\ (entry.kind = "noaccess" \/ (entry.kind = "file" /\ ~entry.readable)) =>
         StartsWith(result.error, <<"Permission denied: ">>)
    /\ entry.kind = "absent" =>
         StartsWith(result.error, <<"File not found: ">>)
    /\ entry.kind \in {"ioerror", "dir"} =>
         StartsWith(result.error, <<"Failed to read file: ">>)

C10_Witness ==
  /\ Done /\ CalledCF /\ fsChanges = 1
  /\ eff.stats = 3 /\ eff.opens = 0
  /\ entry.kind = "absent"
  /\ StartsWith(result.error, <<"File not found: ">>)

\* C11: every failure result of convert_to_markdown or convert_file carries
\* an error message together with both the MIME type and the filename.
C11_FailureCarriesContext ==
  (Returned /\ Has("success") /\ result.success = FALSE) =>
    /\ Has("error")
    /\ Has("mime_type")
    /\ Has("filename")

\* two results agree: the same success flag and, on success, the same markdown
SameOutcome(r1, r2) ==
  /\ r1.success = r2.success
  /\ r1.success => r1.markdown = r2.markdown

\* the renderer installed leaves the stream's read position where it found it
RendererKeepsPosition == tw_req.renderer \in {"echo_restore", "constant"}

\* C13 (as stated): calling convert_to_markdown twice with the same input,
\* MIME type and filename under an unchanged configuration and a
\* deterministic renderer gives the same success flag and, on success, the
\* same markdown.
C13_Idempotent ==
  \A i, j \in DOMAIN tw_results :
    SameOutcome(tw_results[i].result, tw_results[j].result)

\* C13 (amended): the two calls agree when the input is a bytes value, or a
\* stream object whose read position the renderer leaves where it found it.
C13_IdempotentWhenPositionKept ==
  (tw_input.kind = "bytes" \/ RendererKeepsPosition) =>
    \A i, j \in DOMAIN tw_results :
      SameOutcome(tw_results[i].result, tw_results[j].result)

\* the second call on a stream object has returned the markdown of the first
C13_Witness ==
  /\ Len(tw_results) = 2
  /\ tw_input.kind = "stream"
  /\ tw_req.renderer = "echo_restore"
  /\ tw_results[1].result.success
  /\ tw_results[2].result.success
  /\ tw_results[1].result.markdown # << >>
  /\ tw_results[1].result.markdown = tw_results[2].result.markdown

\* the outcome request i produces when it is the only request
RunAlone(i) == SyncCall(as_req[i].op, as_req[i].args)

\* C12: each asynchronous variant invokes its synchronous counterpart exactly
\* once, with the arguments of the request, on a worker, and returns that
\* call's outcome unchanged; with several requests in flight each outcome is
\* the one the same request produces alone, whatever the interleaving.
C12_AsyncIsolated ==
  \A i \in DOMAIN as_state :
    /\ Len(as_invoked[i]) <= 1
    /\ as_state[i] \in {"running", "finished", "resolved"} =>
         /\ Len(as_invoked[i]) = 1
         /\ as_invoked[i][1] = as_req[i].args
    /\ as_state[i] = "resolved" =>
         /\ as_returned[i] = as_future[i]
         /\ as_returned[i] = Some(RunAlone(i))

\* two different requests overlapped on the workers and the first got its
\* own successful result while the second was still running
C12_Witness ==
  /\ as_state # << >>
  /\ as_state[1] = "resolved"
  /\ as_state[2] = "running"
  /\ as_req[1] # as_req[2]
  /\ as_returned[1][1].raised = PyNone
  /\ as_returned[1][1].result.success
  /\ RunAlone(1) # RunAlone(2)

\* ------------------------------------------------------------ read_file tool
ToolCalled == rf_pc # "idle"
ToolDone == rf_pc = "done"
ToolHas(key) == key \in DOMAIN rf_result
ToolError == IF ToolHas("error") THEN rf_result.error ELSE << >>
DotDot == <<".", ".">>
Relative(path) == ~StartsWith(path, <<"/">>)

\* the denials of the guard
GuardDenial ==
  { <<"Invalid file path - parent directory access not allowed">>,
    <<"Absolute file paths outside allowed directories are not permitted">>,
    <<"Path is not a regular file">> }

\* C14: a path whose normalized form begins with '..' is refused with the
\* parent-directory reason, the result echoes the original path, and neither
\* the converter nor the file system is touched.
C14_TraversalDenied ==
  (ToolCalled /\ StartsWith(normpath(rf_arg), DotDot)) =>
    /\ ToolDone
    /\ rf_result.success = FALSE
    /\ rf_result.error =
         <<"Invalid file path - parent directory access not allowed">>
    /\ rf_result.file_path = rf_arg
    /\ rf_eff.lookups = 0
    /\ rf_eff.converterCalls = 0
    /\ eff.stats = 0 /\ eff.opens = 0

\* 'folder/../../../etc/passwd' has been refused as a traversal
C14_Witness ==
  /\ ToolDone
  /\ rf_arg = <<"folder", "/", ".", ".", "/", ".", ".", "/", ".", ".", "/",
                "etc", "/", "passwd">>
  /\ rf_norm = <<".", ".", "/", ".", ".", "/", "etc", "/", "passwd">>
  /\ rf_result.error =
       <<"Invalid file path - parent directory access not allowed">>
  /\ rf_result.file_path = rf_arg

\* C15: a rooted path that begins with parent-directory segments, such as
\* '/../../sensitive_file.txt', has a normalized form starting with '..' and
\* is refused with the parent-directory reason and no other.
C15_RootedTraversalDenied ==
  (ToolDone /\ StartsWith(rf_arg, <<"/", ".", ".", "/">>)) =>
    /\ StartsWith(rf_norm, DotDot)
    /\ rf_result.success = FALSE
    /\ rf_result.error =
         <<"Invalid file path - parent directory access not allowed">>

\* the path is the directory or lies below it
Under(path, dir) ==
  \/ path = dir
  \/ StartsWith(path, IF dir = <<"/">> THEN dir ELSE dir \o <<"/">>)

\* the allow-listed roots: the two temp dirs, ~/Downloads and the cwd
AllowedRoots ==
  { <<"/", "tmp">>, <<"/", "var", "/", "tmp">>,
    <<"/", "home", "/", "user", "/", "Downloads">>, cwd }

\* C16: an absolute normalized path under none of the allow-listed roots is
\* refused with the absolute-path reason before any look at the file system,
\* and the converter is not invoked; an absolute path under the current
\* working directory is let through.
C16_OutsideRootsDenied ==
  (ToolCalled /\ StartsWith(rf_norm, <<"/">>)) =>
    /\ (\A root \in AllowedRoots : ~Under(rf_norm, root)) =>
         /\ ToolDone
         /\ rf_result.error =
              <<"Absolute file paths outside allowed directories are not permitted">>
         /\ rf_eff.lookups = 0
         /\ rf_eff.converterCalls = 0
    /\ (Under(rf_norm, cwd) /\ rf_norm # cwd /\ ToolDone) =>
         ToolError #
           <<"Absolute file paths outside allowed directories are not permitted">>

\* the string checks admitted the path and the guard looked it up
PassedStringChecks == ToolCalled /\ StringChecks(rf_arg, cwd) = <<"pass">>

\* C17: a path that passes the traversal and allow-list checks and names an
\* existing entry that is not a regular file is refused with 'Path is not a
\* regular file' and the converter is not invoked; a path with no entry is
\* not refused by this step.
C17_NonRegularDenied ==
  (PassedStringChecks /\ rf_pc \in {"converting", "done"}) =>
    /\ rf_eff.entryAtGuard.kind = "dir" =>
         /\ ToolDone
         /\ rf_result.success = FALSE
         /\ rf_result.error = <<"Path is not a regular file">>
         /\ rf_eff.converterCalls = 0
    /\ rf_eff.entryAtGuard.kind = "absent" =>
         /\ ToolError # <<"Path is not a regular file">>
         /\ rf_eff.converterCalls = 1

\* a directory under the working directory has been refused
C17_Witness ==
  /\ ToolDone
  /\ rf_arg = <<"docs", "/">>
  /\ rf_eff.entryAtGuard.kind = "dir"
  /\ rf_result.error = <<"Path is not a regular file">>
  /\ rf_eff.lookups = 2

\* the guard's own lookup of the path fails with an OS error
GuardLookupFails ==
  rf_eff.entryAtGuard.kind \in {"noaccess", "ioerror"} /\ ~stat_ignores_oserror

C19_AlwaysStructuredResult ==
  ToolDone =>
    /\ ToolHas("success")
    /\ ToolHas("file_path")
    /\ (rf_eff.converterCalls = 1 /\ raised = PyNone) =>
         rf_result.file_path = normpath(rf_arg)
    /\ rf_eff.converterCalls = 0 =>
         /\ rf_result.file_path = rf_arg
         /\ rf_result.success = FALSE
    /\ (rf_eff.converterCalls = 1 /\ raised # PyNone) =>
         /\ rf_result.file_path = rf_arg
         /\ rf_result.success = FALSE
         /\ StartsWith(rf_result.error,
                       <<"Unexpected error processing file: ">>)

\* the converter raised on './document.pdf' and the tool reported it with
\* the original path
C19_Witness ==
  /\ ToolDone
  /\ rf_eff.converterCalls = 1
  /\ raised # PyNone
  /\ rf_arg = <<".", "/", "document", ".", "pdf">>
  /\ rf_result.file_path = rf_arg
  /\ StartsWith(rf_result.error, <<"Unexpected error processing file: ">>)

\* ------------------------------------------------------------ tool dispatch
Dispatched == dp_pc = "done"

\* the JSON text of {error, tool, arguments}
ErrorPayloadText(message, name, arguments) ==
  <<"{", "\"", "error", "\"", ":", "\"">> \o message
    \o <<"\"", ",", "\"", "tool", "\"", ":", "\"">> \o name
    \o <<"\"", ",", "\"", "arguments", "\"", ":">> \o Dumps(arguments)
    \o <<"}">>

\* C20: when the handler of a registered tool raises, _handle_call_tool does
\* not raise: it logs the error once and returns exactly one text payload
\* whose JSON has error = the exception's message, tool = the tool name and
\* arguments = the arguments passed; after a failure a call is dispatched as
\* before (its handler runs once, nothing of the failed call is left).
C20_HandlerFailureContained ==
  /\ (Dispatched /\ dp.handlerRaised) =>
       /\ dp.name \in handlers
       /\ dp.raised = PyNone
       /\ dp.logged = 1
       /\ dp.handlerRuns = 1
       /\ Len(dp.payloads) = 1
       /\ dp.payloads[1].type = "text"
       /\ dp.payloads[1].text =
            ErrorPayloadText(PyStr(dp.exc), dp.name, dp.arguments)
       /\ jira_client = (dp.clientBefore \/ StartsWith(dp.name, <<"jira_">>))
  /\ (Dispatched /\ dp_failedBefore /\ dp.name \in handlers
        /\ (StartsWith(dp.name, <<"jira_">>) => jira_client)) =>
       /\ dp.handlerRuns = 1
       /\ dp.raised = PyNone
       /\ Len(dp.payloads) = 1
  /\ dp_pc = "idle" => dp = NoDispatchFrame

\* after an earlier failure, read_file without its file_path argument ended
\* in the error payload with the KeyError's message
C20_Witness ==
  /\ Dispatched
  /\ dp_failedBefore
  /\ dp.handlerRaised
  /\ dp.name = <<"read_file">>
  /\ dp.exc.type = "KeyError"
  /\ dp.payloads = <<[type |-> "text",
                      text |-> <<"{", "\"", "error", "\"", ":", "\"",
                                 "'", "file_path", "'",
                                 "\"", ",", "\"", "tool", "\"", ":", "\"",
                                 "read_file",
                                 "\"", ",", "\"", "arguments", "\"", ":",
                                 "{", "}", "}">>]>>

\* ------------------------------------------------------------ module state
\* every value a getter returned is the one instance, made by the first call
OneInstance(singleton) ==
  /\ singleton.constructed <= 1
  /\ \A i \in DOMAIN singleton.returned :
       /\ singleton.returned[i] # 0
       /\ singleton.returned[i] = singleton.returned[1]
       /\ singleton.returned[i] = singleton.instance
  /\ singleton.returned # << >> => singleton.constructed = 1

\* C21: over any sequence of get_converter() calls every call returns the
\* identical DocumentConverter, constructed at most once, by the first call;
\* the same holds for get_mime_detector() and the MimeTypeDetector.
C21_Singletons ==
  /\ OneInstance(md_converter)
  /\ OneInstance(md_detector)
  /\ md_converter.constructed = 1 => md_detector.constructed = 1

\* both getters have been called repeatedly
C21_Witness ==
  /\ Len(md_converter.returned) = 3
  /\ Len(md_detector.returned) = 2
  /\ md_converter.returned[3] = md_converter.returned[1]
  /\ md_detector.returned[2] = md_detector.returned[1]
  /\ md_converter.constructed = 1
  /\ md_detector.constructed = 1

\* C22: a ConverterConfig constructed with no arguments takes its values
\* from the environment as it is at the moment of construction: with
\* MAX_DOCUMENT_SIZE_MB=100, DOCUMENT_CONVERSION_TIMEOUT=60 and
\* DOCUMENT_CONVERTER_DEBUG=true set before the constructor call it has
\* max_file_size_mb 100, timeout_seconds 60 and enable_detailed_logging true.
C22_ConfigFromEnvironmentAtConstruction ==
  (/\ md_config # PyNone
   /\ md_config[1].environ["MAX_DOCUMENT_SIZE_MB"] = Some(<<"100">>)
   /\ md_config[1].environ["DOCUMENT_CONVERSION_TIMEOUT"] = Some(<<"60">>)
   /\ md_config[1].environ["DOCUMENT_CONVERTER_DEBUG"] = Some(<<"true">>)) =>
    md_config[1].config = [max_file_size_mb |-> 100, timeout_seconds |-> 60,
                           enable_detailed_logging |-> TRUE]

\* ------------------------------------------------------- MimeTypeDetector
WordType ==
  <<"application", "/", "vnd.openxmlformats-officedocument.wordprocessingml.document">>
SheetType ==
  <<"application", "/", "vnd.openxmlformats-officedocument.spreadsheetml.sheet">>
SlidesType ==
  <<"application", "/", "vnd.openxmlformats-officedocument.presentationml.presentation">>

\* the type of the open-XML extensions, << >> for any other extension
OpenXmlType(e) ==
  CASE e = <<".", "docx">> -> WordType
    [] e = <<".", "xlsx">> -> SheetType
    [] e = <<".", "pptx">> -> SlidesType
    [] OTHER -> << >>

\* the type of the legacy office extensions, << >> for any other extension
LegacyType(e) ==
  CASE e = <<".", "doc">> -> <<"application", "/", "msword">>
    [] e = <<".", "xls">> -> <<"application", "/", "vnd.ms-excel">>
    [] e = <<".", "ppt">> -> <<"application", "/", "vnd.ms-powerpoint">>
    [] OTHER -> << >>

\* the system table's type for the eension of this state, if it has one
TableType == GuessType(sys_has_office, mt_ext)

BaseTypeBeforeSlash(m) ==
  \E i \in 1..Len(m) :
    /\ m[i] = "/"
    /\ \A j \in 1..(i - 1) : m[j] # "/"
    /\ SubSeq(m, 1, i - 1) \in {<<"text">>, <<"image">>}

\* C24: is_supported(m) is true iff m is in the exact-match set or the part
\* of m before its '/' is 'text' or 'image'; it is false for every other
\* string, strings without any '/' included.
C24_SupportedIffExactOrBase ==
  mt_supported # PyNone =>
    (mt_supported[1] <=>
       (mt_mime \in SUPPORTED_MIME_TYPES \/ BaseTypeBeforeSlash(mt_mime)))

\* ---------------------------------------------------------- JsonValidator
\* the two lists have the same elements the same number of times
SameElements(xs, ys) ==
  /\ Len(xs) = Len(ys)
  /\ \A x \in Elements(xs) \cup Elements(ys) :
       Cardinality({i \in 1..Len(xs) : xs[i] = x})
         = Cardinality({i \in 1..Len(ys) : ys[i] = x})

\* the two documents are equal, list order ignored
EqualDocuments(a, b) ==
  \A k \in Keys :
    \/ a[k] = b[k]
    \/ /\ a[k] # PyNone
       /\ b[k] # PyNone
       /\ a[k][1].t = "list"
       /\ b[k][1].t = "list"
       /\ SameElements(a[k][1].items, b[k][1].items)

\* validate_files has returned a result for two files that hold JSON
Validated ==
  /\ jv_result # PyNone
  /\ jv_result[1].raised = ""

\* C25: validate_files returns 'PASS' with no differences iff the two
\* documents are equal (list order ignored); when they differ it returns
\* 'FAIL' with at least one difference listed.
C25_PassIffEqual ==
  Validated =>
    IF EqualDocuments(jv_baseline.data, jv_comparison.data)
      THEN jv_result[1].status = "PASS" /\ jv_result[1].differences = << >>
      ELSE jv_result[1].status = "FAIL" /\ Len(jv_result[1].differences) >= 1

\* ------------------------------------------------- measuring the content
\* convert_to_markdown got as far as measuring its content
Measured ==
  /\ Done /\ CalledCTM /\ available
  /\ Detector_is_supported(call.mime_type)
  /\ ~call.file_stream.closed

\* where the content stood when the call began: a stream at its position, a
\* bytes value at the start of its fresh buffer
StartPos ==
  IF call.file_stream.kind = "bytes" THEN 0 ELSE call.file_stream.pos

RefusedForSize == Has("error") /\ HasPiece(result.error, "File too large (")

\* C26: measuring does not consume the content: the size compared against
\* the limit is the total length whatever the read position, after the size
\* check the position is the one the call began with, and the renderer gets
\* the content at that position (0 for raw bytes).
C26_MeasuringKeepsPosition ==
  Measured =>
    /\ RefusedForSize <=> call.file_stream.size > Limit
    /\ eff.renderCalls = 0 => eff.pos = StartPos
    /\ eff.renderCalls > 0 => eff.posAtRender = StartPos

\* a stream that was read 10 bytes in and is one byte over the limit has
\* been refused and stands where it stood
C26_Witness ==
  /\ Measured
  /\ call.file_stream.kind = "stream"
  /\ call.file_stream.pos = 10
  /\ call.file_stream.size = Limit + 1
  /\ RefusedForSize
  /\ eff.renderCalls = 0
  /\ eff.pos = 10

\* C27: sandbox containment: every absolute path the guard hands to the
\* converter is one of the allowed roots or lies below one, whatever the
\* working directory and the path string.
C27_AdmittedPathsUnderRoots ==
  (rf_eff.converterCalls > 0 /\ isabs(rf_eff.converterArg)) =>
    \E root \in AllowedRoots : Under(rf_eff.converterArg, root)

\* ------------------------------------------------------ the JIRA client
\* a call of _handle_call_tool runs from its start to its return or raise
DispatchStep == dp_pc = "idle" /\ dp_pc' = "done"

AllCredentials == env_credentials = {"JIRA_URL", "JIRA_USER", "JIRA_API_TOKEN"}

\* what one step may do to the client
LazyClientStep ==
  /\ DispatchStep =>
       LET jira == StartsWith(dp'.name, <<"jira_">>)
       IN /\ ~jira =>
               /\ jira_client' = jira_client
               /\ dp'.initCalls = 0
               /\ dp'.raised # Some(MissingCredentialsMsg)
               /\ dp'.name \in handlers => dp'.handlerRuns = 1
          /\ (jira /\ jira_client) =>
               /\ jira_client'
               /\ dp'.initCalls = 0
          /\ (jira /\ ~jira_client /\ AllCredentials) =>
               /\ jira_client'
               /\ dp'.initCalls = 1
          /\ (jira /\ ~jira_client /\ ~AllCredentials) =>
               /\ ~jira_client'
               /\ dp'.initCalls = 1
               /\ dp'.raised = Some(MissingCredentialsMsg)
               /\ dp'.handlerRuns = 0
  /\ ~DispatchStep => jira_client' = jira_client

UnknownTool == dp.name \notin handlers

CredentialsFail ==
  /\ StartsWith(dp.name, <<"jira_">>)
  /\ ~dp.clientBefore
  /\ ~AllCredentials

UnknownToolRaised ==
  /\ dp.raised = Some(<<"Unknown tool: ">> \o dp.name)
  /\ dp.handlerRuns = 0
  /\ dp.payloads = << >>

CredentialsRaised ==
  /\ dp.raised = Some(MissingCredentialsMsg)
  /\ dp.handlerRuns = 0
  /\ dp.payloads = << >>

OnePayload ==
  /\ dp.raised = PyNone
  /\ Len(dp.payloads) = 1
  /\ dp.payloads[1].type = "text"

\* C29 (as stated): _handle_call_tool raises in exactly two situations, with
\* no handler run: a name outside the handler table raises 'Unknown tool:
\* <name>'; a jira_ name without a client and with failing credentials raises
\* the credentials ValueError; every other call returns one text payload.
C29_RaisesInTwoSituations ==
  Dispatched =>
    /\ UnknownTool => UnknownToolRaised
    /\ CredentialsFail => CredentialsRaised
    /\ ~(UnknownTool \/ CredentialsFail) => OnePayload

\* C29 (amended): the credentials are tried before the table is consulted, so
\* an unknown jira_ name whose initialisation fails raises the credentials
\* error; 'Unknown tool' is raised for the unknown names that get past it.
C29_RaisesCredentialsFirst ==
  Dispatched =>
    /\ CredentialsFail => CredentialsRaised
    /\ (UnknownTool /\ ~CredentialsFail) => UnknownToolRaised
    /\ ~(UnknownTool \/ CredentialsFail) => OnePayload

\* an unknown jira_ name, dispatched with the credentials set, initialised
\* the client and was then refused as unknown
C29_Witness ==
  /\ Dispatched
  /\ dp.name = <<"jira_", "delete_issue">>
  /\ ~dp.clientBefore
  /\ AllCredentials
  /\ jira_client
  /\ UnknownToolRaised

\* -------------------------------------------------------- paginate_commits
\* the pages of the filtered listing, in order
FilteredChain == [i \in 1..pg_filtered |-> [listing |-> "filtered", number |-> i]]

\* the pages the requests sent so far were answered with
PagesFetched == [i \in 1..Len(pg_requests) |-> pg_requests[i].page]

\* C30: paginate_commits fetches each page of the filtered listing's chain
\* exactly once and returns the concatenation of their items, and it sends no
\* request without the original filter other than by following a next link.
C30_EachPageOnce ==
  /\ pg_pc = "returned" =>
       /\ PagesFetched = FilteredChain
       /\ pg_commits = FilteredChain
  /\ \A i \in 1..Len(pg_requests) :
       /\ pg_requests[i].page.listing = "filtered"
       /\ pg_requests[i].how = "api_get" => pg_requests[i].params

====
